---- MODULE Spec2Model ----
(***************************************************************************)
(* A model of imap/jmap_ical.c, the translator between iCalendar           *)
(* components and JMAP calendar event documents.                           *)
(*                                                                         *)
(* Three state machines share this module, each with its own               *)
(* specifications:                                                         *)
(*   SpecRsvp   participants_from_ical / participant_from_ical: the        *)
(*              rsvpResponse resolution loop over the attendee index;      *)
(*   SpecLinks  links_from_ical: the two loops over ATTACH and X-ATTACH    *)
(*              properties and the synthesized link ids;                   *)
(*   SpecWrite  jmapical_toical / jevent_string_as_icalcomponent: the      *)
(*              write path with its invalid-property map;                  *)
(*   SpecRound  jmapical_toical, then jmapical_tojmap of the container     *)
(*              returned, then the next update of that container;          *)
(*   SpecRead   jmapical_tojmap of a stored container.                     *)
(* The variables of the machines that a specification does not run stay    *)
(* at their idle values.                                                   *)
(***************************************************************************)
EXTENDS Integers, Sequences, FiniteSets, TLC

(***************************************************************************)
(* State.                                                                  *)
(***************************************************************************)

\* participants_from_ical and participant_from_ical
VARIABLES
    atts,          \* the ATTENDEE properties of comp, in property order
    prop,          \* index of the attendee being converted (0: none)
    rsvp_prop,     \* the attendee whose PARTSTAT is looked at (0: NULL)
    depth,         \* delegate hops followed so far
    rsvp,          \* the rsvpResponse found, or NullStr
    iters,         \* iterations of the while loop in this call
    participants,  \* the rsvpResponse of each participant stored so far
    rpc            \* "idle" | "attendee" | "rsvp" | "done"

\* links_from_ical
VARIABLES
    lprops,     \* the properties of comp that the two loops look at
    lpos,       \* the next property the running loop looks at
    ret,        \* the links object built so far: id -> index of its property
    assigned,   \* property index -> the id its link was stored under
    lpropstr,   \* ctx->propstr, the path stack
    lpc         \* "idle" | "attach" | "xattach" | "done"

\* jmapical_toical and jevent_string_as_icalcomponent
VARIABLES
    caller,     \* the public operation that is called
    obj,        \* the event document handed in
    src,        \* the existing container handed in, or NULL
    err,        \* the caller's jmapical_err_t, or NULL when it passes none
    ical,       \* the container returned, or NULL
    wctx,       \* the conversion context as it is when the call returns
    wpc,        \* "idle" | "call" | "done" | "aborted" | "read"
    tojmap,     \* the document that jmapical_tojmap returned, or NULL
    wantprops,  \* the properties the caller of jmapical_tojmap wants: an
                \* object with their names as keys, or NULL for all
    given,      \* the keys that the calls so far wrote, each with the value
                \* of the latest call that held it
    calls       \* the number of calls of jmapical_toical so far

rsvpVars == <<atts, prop, rsvp_prop, depth, rsvp, iters, participants, rpc>>
linkVars == <<lprops, lpos, ret, assigned, lpropstr, lpc>>
writeVars ==
    <<caller, obj, src, err, ical, wctx, wpc, tojmap, wantprops, given, calls>>
vars == <<rsvpVars, linkVars, writeVars>>

(***************************************************************************)
(* C pointers and JSON values.                                             *)
(***************************************************************************)

\* The value of Op at e, and at e1 and e2, with each evaluated once.
Strict(Op(_), e) == CHOOSE r \in {Op(v) : v \in {e}} : TRUE
Strict2(Op(_, _), e1, e2) ==
    CHOOSE r \in {Op(v, w) : v \in {e1}, w \in {e2}} : TRUE

\* The C null pointer where a json_t* is expected: an absent key or value.
NULL == [type |-> "NULL"]

\* The C null pointer where a const char* is expected.
NullStr == "<NULL>"

\* JSON values, tagged with their jansson type.
JNull == [type |-> "null"]
JTrue == [type |-> "true"]
JFalse == [type |-> "false"]
JStr(s) == [type |-> "string", s |-> s]
JInt(i) == [type |-> "integer", i |-> i]
JArr(a) == [type |-> "array", a |-> a]
\* A JSON object holds a function from its keys to its values.
JObj(o) == [type |-> "object", o |-> o]
EmptyObject == JObj([k \in {} |-> NULL])

json_is_null(v) == v.type = "null"
json_is_string(v) == v.type = "string"
json_string_value(v) == IF v.type = "string" THEN v.s ELSE NullStr
json_integer_value(v) == IF v.type = "integer" THEN v.i ELSE 0
json_object_size(v) == IF v.type = "object" THEN Cardinality(DOMAIN v.o) ELSE 0
json_array_size(v) == IF v.type = "array" THEN Len(v.a) ELSE 0
json_object_get(v, key) ==
    IF v.type = "object" /\ key \in DOMAIN v.o THEN v.o[key] ELSE NULL
json_object_set(v, key, val) ==
    Strict2(LAMBDA a, b :
                JObj([k \in DOMAIN a.o \cup {key} |->
                        IF k = key THEN b ELSE a.o[k]]), v, val)
json_object_del(v, key) ==
    Strict(LAMBDA a : JObj([k \in DOMAIN a.o \ {key} |-> a.o[k]]), v)
\* json_object_update(v, other): the keys of other overwrite those of v.
json_object_update(v, other) ==
    Strict2(LAMBDA a, b :
                JObj([k \in DOMAIN a.o \cup DOMAIN b.o |->
                        IF k \in DOMAIN b.o THEN b.o[k] ELSE a.o[k]]),
            v, other)

JNOTNULL(item) == item # NULL /\ ~json_is_null(item)

(***************************************************************************)
(* Part 1: participants_from_ical and the rsvpResponse loop.               *)
(***************************************************************************)

\* Number of ATTENDEE properties of the component.
NumAttendees == 3

\* Iterations of the rsvp loop after which the model stops following a call.
MaxIters == 70

\* The depth cap of the delegate chain.
MaxDepth == 64

AllUris == <<"mailto:a", "mailto:b", "mailto:c", "mailto:d", "mailto:e">>

\* A DELEGATED-TO value that names no attendee of the component.
GoneUri == "mailto:gone"

\* No DELEGATED-TO parameter; a DELEGATED-TO parameter whose value is NULL.
NoParam == "<no-param>"
NullValue == "<null-value>"

\* PARTSTAT: absent ("NONE"), or one of the libical enum values the switch
\* distinguishes; NEEDS-ACTION stands for every value of the default branch.
PartStats == {"NONE", "ACCEPTED", "DECLINED", "TENTATIVE", "DELEGATED",
              "NEEDS-ACTION"}

\* The attendees the model draws from: DELEGATED-TO is given to delegators
\* only (the loop reads it only after it has seen PARTSTAT=DELEGATED).
AttendeeParams(n) ==
    {[partstat |-> p, delegatedto |-> NoParam] : p \in PartStats \ {"DELEGATED"}}
    \cup {[partstat |-> "DELEGATED", delegatedto |-> t] :
            t \in {NoParam, NullValue, GoneUri} \cup {AllUris[i] : i \in 1..n}}

\* hash_lookup(to, hatts): the attendee whose value is the uri, 0 if none.
hash_lookup(to, as) ==
    IF \E i \in 1..Len(as) : as[i].uri = to
    THEN CHOOSE i \in 1..Len(as) : as[i].uri = to
    ELSE 0

\* One iteration of the while (!rsvp) loop of participant_from_ical.
\* Returns the new rsvp_prop, depth and rsvp.
RsvpIteration(as, p, rp, d) ==
    LET pst == as[rp].partstat
        same == [rsvp_prop |-> rp, depth |-> d, rsvp |-> NullStr]
    IN  CASE pst = "NONE"      -> [same EXCEPT !.rsvp = "needs-action"]
          [] pst = "ACCEPTED"  -> [same EXCEPT !.rsvp = "accepted"]
          [] pst = "DECLINED"  -> [same EXCEPT !.rsvp = "declined"]
          [] pst = "TENTATIVE" -> [same EXCEPT !.rsvp = "tentative"]
          [] pst = "DELEGATED" ->
                \* the DELEGATED-TO parameter is read from prop
                LET to == as[p].delegatedto IN
                IF to = NoParam
                THEN [same EXCEPT !.rsvp = "needs-action"]
                ELSE IF to = NullValue
                THEN same                          \* if (!to) continue;
                ELSE LET found == hash_lookup(to, as) IN
                     IF found # 0
                     THEN [rsvp_prop |-> found,
                           depth |-> d + 1,
                           rsvp |-> IF d + 1 > MaxDepth
                                    THEN "needs-action" ELSE NullStr]
                     ELSE [rsvp_prop |-> 0, depth |-> d,
                           rsvp |-> "needs-action"]
          [] OTHER -> [same EXCEPT !.rsvp = "needs-action"]

\* participants_from_ical up to the first call of participant_from_ical.
InitRsvp ==
    /\ \E n \in 1..NumAttendees :
         \E c \in [1..n -> AttendeeParams(n)] :
            atts = [i \in 1..n |-> [uri |-> AllUris[i],
                                    partstat |-> c[i].partstat,
                                    delegatedto |-> c[i].delegatedto]]
    /\ prop = 1
    /\ rsvp_prop = 0
    /\ depth = 0
    /\ rsvp = NullStr
    /\ iters = 0
    /\ participants = <<>>
    /\ rpc = "attendee"
    \* the other machines are idle
    /\ lprops = <<>>
    /\ lpos = 0
    /\ ret = EmptyObject
    /\ assigned = <<>>
    /\ lpropstr = <<>>
    /\ lpc = "idle"
    /\ caller = "idle"
    /\ obj = NULL
    /\ src = NULL
    /\ err = NULL
    /\ ical = NULL
    /\ wctx = NULL
    /\ wpc = "idle"
    /\ tojmap = NULL
    /\ wantprops = NULL
    /\ given = EmptyObject
    /\ calls = 0

\* participant_from_ical, from its entry to the head of the rsvp loop.
ParticipantBegin ==
    /\ UNCHANGED <<linkVars, writeVars>>
    /\ rpc = "attendee"
    /\ rsvp_prop' = prop
    /\ depth' = 0
    /\ rsvp' = NullStr
    /\ iters' = 0
    /\ rpc' = "rsvp"
    /\ UNCHANGED <<atts, prop, participants>>

\* One pass through the body of while (!rsvp).
RsvpLoop ==
    /\ UNCHANGED <<linkVars, writeVars>>
    /\ rpc = "rsvp"
    /\ rsvp = NullStr
    /\ iters < MaxIters
    /\ LET r == RsvpIteration(atts, prop, rsvp_prop, depth) IN
        /\ rsvp_prop' = r.rsvp_prop
        /\ depth' = r.depth
        /\ rsvp' = r.rsvp
    /\ iters' = iters + 1
    /\ UNCHANGED <<atts, prop, participants, rpc>>

\* The loop has ended: rsvpResponse is set, the participant is stored under
\* its id and participants_from_ical moves to the next ATTENDEE.
ParticipantEnd ==
    /\ UNCHANGED <<linkVars, writeVars>>
    /\ rpc = "rsvp"
    /\ rsvp # NullStr
    /\ participants' = Append(participants, rsvp)
    /\ IF prop < Len(atts)
       THEN prop' = prop + 1 /\ rpc' = "attendee"
       ELSE prop' = prop /\ rpc' = "done"
    /\ UNCHANGED <<atts, rsvp_prop, depth, rsvp, iters>>

NextRsvp == ParticipantBegin \/ RsvpLoop \/ ParticipantEnd

(***************************************************************************)
(* Claims about the rsvpResponse resolution.                               *)
(***************************************************************************)

\* The rsvpResponse that names a final PARTSTAT.
RsvpOfPartstat(pst) ==
    CASE pst = "ACCEPTED"  -> "accepted"
      [] pst = "DECLINED"  -> "declined"
      [] pst = "TENTATIVE" -> "tentative"
      [] OTHER -> "none"

\* The status at the end of the delegation chain that starts at attendee i,
\* each delegator's own DELEGATED-TO naming the next attendee; "none" when
\* the chain does not end in accepted, declined or tentative within hops.
RECURSIVE ChainStatus(_, _, _)
ChainStatus(as, i, hops) ==
    IF as[i].partstat # "DELEGATED"
    THEN RsvpOfPartstat(as[i].partstat)
    ELSE LET next == hash_lookup(as[i].delegatedto, as) IN
         IF hops = 0 \/ next = 0 THEN "none"
         ELSE ChainStatus(as, next, hops - 1)

\* C1: the rsvp loop of participant_from_ical ends for every attendee set
\* and every DELEGATED-TO graph: no call runs the loop body more than
\* MaxDepth + 1 times, and once more than MaxDepth hops were followed the
\* rsvpResponse is "needs-action".
C1_RsvpTerminates ==
    /\ iters <= MaxDepth + 1
    /\ (rpc = "rsvp" /\ depth > MaxDepth) => rsvp = "needs-action"

\* C2: when participants_from_ical is done, every attendee whose delegation
\* chain ends, within MaxDepth hops, in an attendee that accepted, declined
\* or tentatively accepted has that attendee's status as its rsvpResponse.
C2_ChainResolved ==
    rpc = "done" =>
        \A i \in 1..Len(atts) :
            ChainStatus(atts, i, MaxDepth) # "none"
                => participants[i] = ChainStatus(atts, i, MaxDepth)


(***************************************************************************)
(* Part 2: links_from_ical.                                                *)
(***************************************************************************)


\* Number of ATTACH and X- properties of the component.
MaxProps == 3

\* "%s%zu" of idprefix "link" and json_object_size(ret) + 1.
SynthId(n) == <<"link1", "link2", "link3", "link4", "link5", "link6">>[n]

\* The stored X-JMAP-ID of a link property: none, or an id a former
\* conversion handed out and links_to_ical stored.
StoredIds == {NullStr, "link1", "link2"}

\* The properties of the component: ATTACH with a url, a binary value or an
\* empty url; the private X-ATTACH with a value or an empty value; any other
\* X- property.
LinkProps ==
    {[kind |-> "ATTACH", id |-> i, value |-> v] :
        i \in StoredIds, v \in {"url", "binary", "empty"}}
    \cup {[kind |-> "X-ATTACH", id |-> i, value |-> v] :
        i \in StoredIds, v \in {"url", "empty"}}
    \cup {[kind |-> "X-OTHER", id |-> NullStr, value |-> "url"]}

\* link_from_ical returns a link (TRUE) or NULL (FALSE).
link_from_ical(p) ==
    IF p.kind = "ATTACH" THEN p.value = "url"
    ELSE IF p.kind = "X-ATTACH" THEN p.value # "empty"
    ELSE FALSE

\* icalcomponent_get_first/next_property: the first property at or after
\* position from whose kind is among kinds, 0 if there is none.
NextProperty(ps, from, kinds) ==
    LET at == {i \in from..Len(ps) : ps[i].kind \in kinds} IN
    IF at = {} THEN 0 ELSE CHOOSE i \in at : \A j \in at : i <= j

\* The id of a link property: its X-JMAP-ID, else idprefix and the size of
\* ret plus one.
LinkId(p, r) ==
    IF p.id # NullStr THEN p.id ELSE SynthId(json_object_size(r) + 1)

\* beginprop_key(ctx, "links", id)
LinkPath(id) == <<"links", id>>

InitLinks ==
    /\ \E n \in 1..MaxProps : lprops \in [1..n -> LinkProps]
    /\ lpos = 1
    /\ ret = EmptyObject
    /\ assigned = <<>>
    /\ lpropstr = <<>>
    /\ lpc = "attach"
    \* the other machines are idle
    /\ atts = <<>>
    /\ prop = 0
    /\ rsvp_prop = 0
    /\ depth = 0
    /\ rsvp = NullStr
    /\ iters = 0
    /\ participants = <<>>
    /\ rpc = "idle"
    /\ caller = "idle"
    /\ obj = NULL
    /\ src = NULL
    /\ err = NULL
    /\ ical = NULL
    /\ wctx = NULL
    /\ wpc = "idle"
    /\ tojmap = NULL
    /\ wantprops = NULL
    /\ given = EmptyObject
    /\ calls = 0

\* The body of either loop for property i: the id, beginprop_key,
\* link_from_ical, and then either continue or endprop and the store.
LinkBody(i) ==
    LET id == LinkId(lprops[i], ret) IN
    IF link_from_ical(lprops[i])
    THEN /\ ret' = json_object_set(ret, id, JInt(i))
         /\ assigned' = [k \in DOMAIN assigned \cup {i} |->
                            IF k = i THEN id ELSE assigned[k]]
         /\ lpropstr' = lpropstr
    ELSE /\ lpropstr' = Append(lpropstr, LinkPath(id))
         /\ UNCHANGED <<ret, assigned>>

\* One pass of the loop over the ATTACH properties.
LinksAttach ==
    /\ UNCHANGED <<rsvpVars, writeVars>>
    /\ lpc = "attach"
    /\ LET i == NextProperty(lprops, lpos, {"ATTACH"}) IN
        /\ i # 0
        /\ LinkBody(i)
        /\ lpos' = i + 1
    /\ UNCHANGED <<lprops, lpc>>

\* The loop over the ATTACH properties ends.
LinksAttachEnd ==
    /\ UNCHANGED <<rsvpVars, writeVars>>
    /\ lpc = "attach"
    /\ NextProperty(lprops, lpos, {"ATTACH"}) = 0
    /\ lpos' = 1
    /\ lpc' = "xattach"
    /\ UNCHANGED <<lprops, ret, assigned, lpropstr>>

\* One pass of the loop over the X- properties.
LinksXAttach ==
    /\ UNCHANGED <<rsvpVars, writeVars>>
    /\ lpc = "xattach"
    /\ LET i == NextProperty(lprops, lpos, {"X-ATTACH", "X-OTHER"}) IN
        /\ i # 0
        /\ IF lprops[i].kind # "X-ATTACH"
           THEN UNCHANGED <<ret, assigned, lpropstr>>
           ELSE LinkBody(i)
        /\ lpos' = i + 1
    /\ UNCHANGED <<lprops, lpc>>

\* The loop over the X- properties ends and links_from_ical returns ret
\* (JSON null when it is empty).
LinksReturn ==
    /\ UNCHANGED <<rsvpVars, writeVars>>
    /\ lpc = "xattach"
    /\ NextProperty(lprops, lpos, {"X-ATTACH", "X-OTHER"}) = 0
    /\ lpc' = "done"
    /\ UNCHANGED <<lprops, lpos, ret, assigned, lpropstr>>

NextLinks == LinksAttach \/ LinksAttachEnd \/ LinksXAttach \/ LinksReturn

\* C10: two distinct link properties that have no stored id and yield a link
\* are stored under distinct ids, so neither overwrites the other in ret.
C10_SynthIdsDistinct ==
    \A i, j \in DOMAIN assigned :
        (i # j /\ lprops[i].id = NullStr /\ lprops[j].id = NullStr)
            => assigned[i] # assigned[j]


(***************************************************************************)
(* Part 3: the write path, jmapical_toical.                                *)
(*                                                                         *)
(* The handlers are operators that take the context and return it as the   *)
(* handler leaves it.  The context record holds the fields of context_t    *)
(* that the write path uses, and with them the component being written     *)
(* (comp), the exception components of the container (excs), the code of   *)
(* ctx->err (code), whether an assert has ended the process (aborted),     *)
(* whether undefined behaviour was executed (ub), and the ids of the       *)
(* overrides of the document that were given a start key (injected).       *)
(***************************************************************************)

\* The error codes of jmapical_err_t; "OK" is zero.
ErrorCodes == {"OK", "CALLBACK", "MEMORY", "ICAL", "PROPS", "UID", "UNKNOWN"}

\* ctx->mode & JMAPICAL_UPDATE_MODE, ctx->mode & JMAPICAL_EXC_MODE
is_update(c) == "UPDATE" \in c.mode
is_exc_mode(c) == "EXC" \in c.mode

\* The path stack holds one element per beginprop: <<name>>, or <<name, key>>
\* for the "name/key" that beginprop_key and beginprop_idx push.
beginprop(c, name) == [c EXCEPT !.propstr = Append(@, <<name>>)]
beginprop_key(c, name, key) == [c EXCEPT !.propstr = Append(@, <<name, key>>)]
IdxStr(idx) == <<"0", "1", "2", "3">>[idx + 1]
beginprop_idx(c, name, idx) == beginprop_key(c, name, IdxStr(idx))
endprop(c) == [c EXCEPT !.propstr = SubSeq(@, 1, Len(@) - 1)]

RECURSIVE Flatten(_)
Flatten(frames) ==
    IF frames = <<>> THEN <<>> ELSE Head(frames) \o Flatten(Tail(frames))

\* The JSON pointer of name under the path stack, as its sequence of
\* segments; <<>> is the NULL that encodeprop returns for no name and an
\* empty stack.
encodeprop(c, name) ==
    Flatten(c.propstr) \o (IF name = NullStr THEN <<>> ELSE <<name>>)

\* json_object_set_new refuses the NULL key.
invalidprop(c, name) ==
    IF encodeprop(c, name) = <<>> THEN c
    ELSE [c EXCEPT !.invalid = @ \cup {encodeprop(c, name)}]

\* props: the pointers of a nested context, each appended to the path.
invalidprop_append(c, props) ==
    [c EXCEPT !.invalid = @ \cup {encodeprop(c, NullStr) \o q : q \in props}]

have_invalid_props(c) == c.invalid # {}
invalid_prop_count(c) == Cardinality(c.invalid)

\* get_invalid_props: the pointer list, NULL when there is none.  The list
\* is held as the set of its members.
get_invalid_props(c) == IF c.invalid = {} THEN NULL ELSE JArr(c.invalid)

\* json_unpack_ex of one value with the formats readprop is called with.
json_unpack_ok(jval, fmt) ==
    CASE fmt = "s" -> jval.type = "string"
      [] fmt = "b" -> jval.type \in {"true", "false"}
      [] fmt = "i" -> jval.type = "integer"
      [] OTHER -> TRUE

\* The value readprop returns.
readprop_r(from, name, is_mandatory, fmt) ==
    LET jval == json_object_get(from, name) IN
    IF jval = NULL /\ is_mandatory THEN -1
    ELSE IF jval # NULL
         THEN (IF json_unpack_ok(jval, fmt) THEN 1 ELSE -2)
         ELSE 0

\* The context after readprop.
readprop(c, from, name, is_mandatory, fmt) ==
    IF readprop_r(from, name, is_mandatory, fmt) < 0
    THEN invalidprop(c, name) ELSE c

\* The iteration order of json_object_foreach over the ids of the model.
KeyOrder ==
    <<"a1", "a2", "e1", "hexkey", "l1", "l2", "p1", "p2", "v1",
      "2020-01-08T00:00:00", "2020-01-15T00:00:00">>
Keys(v) ==
    IF v.type = "object"
    THEN SelectSeq(KeyOrder, LAMBDA k : k \in DOMAIN v.o) ELSE <<>>

\* Time zones: the ids libical knows; tz_from_tzid returns NULL for others.
KnownZones == {"Europe/Berlin", "America/New_York", "Etc/UTC"}
tz_from_tzid(tzid) == IF tzid \in KnownZones THEN tzid ELSE NullStr
utc == "Etc/UTC"

\* Local date-times: strptime accepts the first three; "bogus" fails.
Midnight == "2020-01-01T00:00:00"
Morning == "2020-01-01T09:30:00"
Override1 == "2020-01-08T00:00:00"
Override2 == "2020-01-15T00:00:00"
\* what localdate_from_icaltime_r makes of the null time
Epoch == "1970-01-01T00:00:00"
\* a local time converted into another zone
Shifted == "2020-01-01T06:00:00"
LocalDates == {Midnight, Morning, Override1, Override2, Epoch, Shifted}
localdate_to_tm(buf) == buf \in LocalDates
HasTimeOfDay(buf) == buf \in {Morning, Shifted}

\* icaltimetype: the local time, its zone and is_date.  NullTime is
\* icaltime_null_time().
NullTime == [t |-> NullStr, zone |-> NullStr, is_date |-> FALSE]

\* icaltime_as_timet of dt converted to UTC by icaltime_convert_to_zone, in
\* minutes since Midnight: a floating time is taken as it is.
utc_offset(zone) ==
    CASE zone = "Europe/Berlin" -> 60
      [] zone = "America/New_York" -> 0 - 300
      [] OTHER -> 0
clock_minutes(t) ==
    CASE t = Midnight -> 0
      [] t = Shifted -> 360
      [] t = Morning -> 570
      [] t = Override1 -> 7 * 1440
      [] t = Override2 -> 14 * 1440
timet_utc(dt) ==
    clock_minutes(dt.t) - (IF dt.is_date THEN 0 ELSE utc_offset(dt.zone))

\* localdate_to_icaltime: whether it succeeds, and the time it stores.
localdate_to_icaltime_ok(buf, tz, is_allday) ==
    localdate_to_tm(buf) /\ ~(is_allday /\ HasTimeOfDay(buf))
localdate_to_icaltime(buf, tz, is_allday) ==
    [t |-> buf, zone |-> tz, is_date |-> is_allday /\ tz = NullStr]

\* Durations: the strings icaldurationtype_from_string accepts.
Durations == {"P0D", "PT0S", "P1D", "PT1H", "PT15M", "-PT15M"}
is_bad_duration(dur) == dur \notin Durations
\* strchr(dur, 'T')
HasT(dur) == dur \in {"PT1H", "PT15M", "-PT15M"}
dur_is_neg(dur) == dur = "-PT15M"
\* icaldurationtype_as_int, in minutes
dur_as_int(dur) ==
    CASE dur \in {"P0D", "PT0S"} -> 0
      [] dur = "P1D" -> 1440
      [] dur = "PT1H" -> 60
      [] dur = "PT15M" -> 15
      [] dur = "-PT15M" -> -15
\* icaldurationtype_as_ical_string_r of a duration of m minutes, m >= 0
dur_as_ical_string(m) ==
    CASE m = 0 -> "PT0S"
      [] m = 15 -> "PT15M"
      [] m = 60 -> "PT1H"
      [] m = 450 -> "PT7H30M"
      [] m = 510 -> "PT8H30M"
      [] m = 570 -> "PT9H30M"
      [] m = 630 -> "PT10H30M"
      [] m = 1440 -> "P1D"

(***************************************************************************)
(* The VEVENT component.  Each field holds the properties of one kind:    *)
(* a single value, or the sequence of the properties in the order they    *)
(* were added.  NullStr, NullTime, NullEnd and "NONE" stand for no        *)
(* property of the kind.                                                   *)
(***************************************************************************)

\* DTEND: DTSTART's local time t plus the duration, in zone; id is its
\* X-JMAP-ID parameter.
NullEnd ==
    [t |-> NullStr, plus |-> NullStr, zone |-> NullStr, is_date |-> FALSE,
     id |-> NullStr]

\* icalcomponent_new_vevent()
NewVevent ==
    [uid |-> NullStr, recurid |-> NullTime, dtstart |-> NullTime,
     dtend |-> NullEnd, duration |-> NullStr, summary |-> NullStr,
     priority |-> <<>>, attach |-> <<>>, location |-> <<>>, rrule |-> <<>>,
     status |-> "NONE", transp |-> "NONE", class |-> "NONE",
     alarms |-> <<>>, exdate |-> <<>>, rdate |-> <<>>,
     sequence |-> 0, description |-> NullStr, color |-> <<>>,
     attendee |-> <<>>, organizer |-> NullStr, created |-> NullStr,
     dtstamp |-> NullStr]

\* context_new(NULL, err, mode), with the component it is going to write;
\* code is the code of the jmapical_err_t that ctx->err points to.
context_new(code, mode, comp) ==
    [mode |-> mode, invalid |-> {}, propstr |-> <<>>, is_allday |-> FALSE,
     uid |-> NullStr, tzstart_old |-> NullStr, tzstart |-> NullStr,
     tzend_old |-> NullStr, tzend |-> NullStr, code |-> code,
     comp |-> comp, excs |-> <<>>, aborted |-> FALSE, ub |-> FALSE,
     injected |-> {}]

\* tzid_from_ical(comp, kind): the TZID of the property, "Etc/UTC" for a
\* UTC time, NULL without the property.
tzid_from_ical(dt) == dt.zone

\* The zone of the value that dtprop_to_ical stores for dt with tz: a UTC
\* time stays UTC and gets no TZID.
dtprop_zone(dt, tz) == IF dt.zone = utc THEN utc ELSE tz

\* duration_from_ical: the difference of end and start, "P0D" for none.
duration_from_ical(comp) ==
    IF comp.dtend # NullEnd THEN comp.dtend.plus
    ELSE IF comp.duration # NullStr THEN comp.duration ELSE "P0D"

location_is_endtimezone(loc) ==
    /\ json_string_value(json_object_get(loc, "rel")) # NullStr
    /\ json_object_get(loc, "timeZone") # NULL
    /\ json_string_value(json_object_get(loc, "rel")) = "end"

\* startend_to_ical, lines 2743-2779: the body of the loop for the first
\* location with rel=end and a timeZone.
endzone_to_ical(c, id, loc) ==
    LET timeZone == json_object_get(loc, "timeZone")
        b == beginprop_key(c, "locations", id)
        d == IF ~json_is_null(timeZone)
             THEN IF json_string_value(timeZone) # NullStr
                  THEN [b EXCEPT !.tzend = tz_from_tzid(timeZone.s)]
                  ELSE invalidprop(b, "timeZone")
             ELSE [b EXCEPT !.tzend = NullStr]
        e == Strict(LAMBDA v : IF (v.tzstart = NullStr) # (v.tzend = NullStr)
                               THEN invalidprop(v, "timeZone") ELSE v, d)
        f == Strict(LAMBDA v : IF v.is_allday /\ v.tzend # NullStr
                               THEN invalidprop(v, "timeZone") ELSE v, e)
    IN endprop(f)

\* startend_to_ical, lines 2836-2860: DTSTART and DTEND or DURATION.
startend_write(c, dtstart, dur, endzoneid) ==
    IF have_invalid_props(c) THEN c
    ELSE IF (c.tzstart # NullStr) # (c.tzend # NullStr)
    THEN [c EXCEPT !.aborted = TRUE]
    ELSE LET start == [dtstart EXCEPT !.zone = dtprop_zone(dtstart, c.tzstart)]
         IN IF c.tzstart # c.tzend
            THEN [c EXCEPT !.comp.dtstart = start,
                           !.comp.duration = NullStr,
                           !.comp.dtend =
                               [t |-> dtstart.t, plus |-> dur,
                                zone |-> c.tzend, is_date |-> dtstart.is_date,
                                id |-> endzoneid],
                           \* xjmapid_to_ical(prop, NULL) is strlen(NULL)
                           !.ub = @ \/ endzoneid = NullStr]
            ELSE [c EXCEPT !.comp.dtstart = start,
                           !.comp.dtend = NullEnd,
                           !.comp.duration = dur]

\* startend_to_ical, lines 2709-2726: the new timezone of the start.
starttz_to_ical(c, event, is_create) ==
    LET jtz == json_object_get(event, "timeZone")
        mand == is_create /\ ~c.is_allday
        pe == readprop_r(event, "timeZone", mand, "s")
        r == readprop(c, event, "timeZone", mand, "s")
        c2 == IF ~json_is_null(jtz)
              THEN IF pe > 0
                   THEN IF tz_from_tzid(jtz.s) = NullStr
                        THEN invalidprop([r EXCEPT !.tzstart = NullStr],
                                         "timeZone")
                        ELSE [r EXCEPT !.tzstart = tz_from_tzid(jtz.s)]
                   ELSE IF pe = 0
                        THEN [r EXCEPT !.tzstart = c.tzstart_old]
                        ELSE r
              ELSE [c EXCEPT !.tzstart = NullStr]
    IN Strict(LAMBDA v : IF is_create
                         THEN [v EXCEPT !.tzstart_old = v.tzstart] ELSE v, c2)

\* startend_to_ical, lines 2729-2790: the current and the new timezone of
\* the end; endzoneid is the id of the first location with rel=end and a
\* timeZone, NULL for none.
endtz_to_ical(c, event, is_create, endzoneid) ==
    LET tzidend == tzid_from_ical(c.comp.dtend)
        locations == json_object_get(event, "locations")
        haveloc == locations # NULL /\ ~json_is_null(locations)
        c4 == [c EXCEPT !.tzend_old =
                  IF tzidend # NullStr THEN tz_from_tzid(tzidend)
                  ELSE c.tzstart_old]
        c5 == Strict(LAMBDA v :
                IF haveloc
                THEN IF endzoneid # NullStr
                     THEN endzone_to_ical(v, endzoneid, locations.o[endzoneid])
                     ELSE v
                ELSE IF json_is_null(locations)
                     THEN [v EXCEPT !.tzend = NullStr]
                     ELSE [v EXCEPT !.tzend = v.tzend_old], c4)
        c6 == Strict(LAMBDA v :
                IF is_create
                THEN [v EXCEPT !.tzend_old =
                         IF endzoneid # NullStr THEN v.tzend ELSE v.tzstart]
                ELSE v, c5)
    IN Strict(LAMBDA v : IF endzoneid = NullStr
                         THEN [v EXCEPT !.tzend = v.tzend_old] ELSE v, c6)

\* startend_to_ical, lines 2802-2818: the new duration.
duration_to_ical(c, event, dur) ==
    LET pe == readprop_r(event, "duration", FALSE, "s")
        r == readprop(c, event, "duration", FALSE, "s")
        c8 == IF pe > 0 /\ is_bad_duration(event.o["duration"].s)
              THEN invalidprop(r, "duration") ELSE r
    IN Strict(LAMBDA v : IF v.is_allday /\ HasT(dur)
                         THEN invalidprop(v, "duration") ELSE v, c8)

startend_to_ical(c0, event) ==
    LET is_create == ~is_update(c0)
        comp == c0.comp
        c1 == [c0 EXCEPT !.tzstart_old =
                            tz_from_tzid(tzid_from_ical(comp.dtstart))]
        c3 == Strict(LAMBDA v : starttz_to_ical(v, event, is_create), c1)
        locations == json_object_get(event, "locations")
        endids == SelectSeq(Keys(locations),
                            LAMBDA id : location_is_endtimezone(locations.o[id]))
        haveloc == locations # NULL /\ ~json_is_null(locations)
        endzoneid == IF haveloc /\ endids # <<>> THEN Head(endids) ELSE NullStr
        c7 == Strict(LAMBDA v : endtz_to_ical(v, event, is_create, endzoneid),
                     c3)
        \* the current and the new duration
        dur_old == IF ~is_create THEN duration_from_ical(comp) ELSE "P0D"
        pe2 == readprop_r(event, "duration", FALSE, "s")
        dur == IF pe2 > 0 THEN event.o["duration"].s ELSE dur_old
        c9 == Strict(LAMBDA v : duration_to_ical(v, event, dur), c7)
        \* the current and the new start
        dtstart_old == comp.dtstart
        pe3 == readprop_r(event, "start", is_create, "s")
    IN Strict(LAMBDA v :
        LET ok3 == pe3 > 0 /\ localdate_to_icaltime_ok(event.o["start"].s,
                                                       v.tzstart, v.is_allday)
            dtstart == IF ok3
                       THEN localdate_to_icaltime(event.o["start"].s,
                                                  v.tzstart, v.is_allday)
                       ELSE dtstart_old
        IN Strict(LAMBDA w : startend_write(w, dtstart, dur, endzoneid),
                  IF pe3 > 0 /\ ~ok3
                  THEN invalidprop(readprop(v, event, "start", is_create, "s"),
                                   "start")
                  ELSE readprop(v, event, "start", is_create, "s")), c9)

\* links_to_ical, the body of the loop for one link.
link_to_ical(c, id, link) ==
    LET b == beginprop_key(c, "links", id)
        pe == readprop_r(link, "href", TRUE, "s")
        r1 == readprop(b, link, "href", TRUE, "s")
        c1 == IF pe > 0 /\ link.o["href"].s = ""
              THEN invalidprop(r1, "href") ELSE r1
        href == IF pe > 0 /\ link.o["href"].s # ""
                THEN link.o["href"].s ELSE NullStr
        c2 == Strict(LAMBDA v : readprop(v, link, "rel", FALSE, "s"), c1)
        rel == json_string_value(json_object_get(link, "rel"))
    IN Strict(LAMBDA v :
            IF href # NullStr /\ ~have_invalid_props(v)
            THEN endprop([v EXCEPT !.comp.attach =
                            Append(@, [id |-> id, href |-> href,
                                       rel |-> IF rel = "rel" THEN NullStr
                                               ELSE rel])])
            ELSE endprop(v), c2)

RECURSIVE links_foreach(_, _, _)
links_foreach(c, links, ids) ==
    IF ids = <<>> THEN c
    ELSE Strict(LAMBDA v : links_foreach(v, links, Tail(ids)),
                link_to_ical(c, Head(ids), links.o[Head(ids)]))

\* links_to_ical(ctx, comp, links, "links", ICAL_ATTACH_PROPERTY)
links_to_ical(c, links) ==
    Strict(LAMBDA v : links_foreach(v, links, Keys(links)),
           [c EXCEPT !.comp.attach = <<>>])

\* validate_location, for the keys name, rel, uri and timeZone.
validate_location(c, loc) ==
    IF json_object_size(loc) = 0 THEN invalidprop(c, NullStr)
    ELSE LET bad(k) == JNOTNULL(json_object_get(loc, k))
                       /\ ~json_is_string(json_object_get(loc, k))
             c1 == IF bad("name") THEN invalidprop(c, "name") ELSE c
             c2 == Strict(LAMBDA v : IF bad("rel") THEN invalidprop(v, "rel")
                                     ELSE v, c1)
             c3 == Strict(LAMBDA v : IF bad("uri") THEN invalidprop(v, "uri")
                                     ELSE v, c2)
             jval == json_object_get(loc, "timeZone")
         IN Strict(LAMBDA v :
                IF json_is_string(jval)
                THEN IF tz_from_tzid(jval.s) = NullStr
                     THEN invalidprop(v, "timeZone") ELSE v
                ELSE IF JNOTNULL(jval) THEN invalidprop(v, "timeZone") ELSE v,
                c3)

\* location_to_ical: the kind of the property and what it carries.
location_to_ical(c, id, loc) ==
    LET name == json_string_value(json_object_get(loc, "name"))
        uri == json_string_value(json_object_get(loc, "uri"))
        rel0 == json_string_value(json_object_get(loc, "rel"))
        rel == IF rel0 = "unknown" THEN NullStr ELSE rel0
        have_location == \E i \in 1..Len(c.comp.location) :
                            c.comp.location[i].kind = "LOCATION"
        kind == IF ~have_location THEN "LOCATION"
                ELSE IF uri # NullStr /\ rel = "virtual" THEN "CONFERENCE"
                ELSE "X-JMAP-LOCATION"
    IN [c EXCEPT !.comp.location =
           Append(@, [kind |-> kind, id |-> id, name |-> name, uri |-> uri,
                      rel |-> IF kind = "CONFERENCE" THEN NullStr ELSE rel,
                      tzid |-> json_string_value(
                                   json_object_get(loc, "timeZone"))])]

\* locations_to_ical, the body of the loop for one location.
locations_body(c, id, loc) ==
    LET b == beginprop_key(c, "locations", id) IN
    IF id = "" THEN endprop(invalidprop(b, NullStr))
    ELSE IF location_is_endtimezone(loc) THEN endprop(b)
    ELSE Strict(LAMBDA v :
            IF json_object_size(loc) = 0
                \/ invalid_prop_count(v) # invalid_prop_count(b)
            THEN endprop(v)
            ELSE endprop(location_to_ical(b, id, loc)),
            validate_location(b, loc))

RECURSIVE locations_foreach(_, _, _)
locations_foreach(c, locations, ids) ==
    IF ids = <<>> THEN c
    ELSE Strict(LAMBDA v : locations_foreach(v, locations, Tail(ids)),
                locations_body(c, Head(ids), locations.o[Head(ids)]))

\* locations_to_ical: LOCATION and X-JMAP-LOCATION are purged, CONFERENCE
\* is not.
locations_to_ical(c, locations) ==
    LET purged == [c EXCEPT !.comp.location =
                      SelectSeq(@, LAMBDA l : l.kind = "CONFERENCE")]
    IN IF ~JNOTNULL(locations) THEN purged
       ELSE Strict(LAMBDA v : locations_foreach(v, locations, Keys(locations)),
                   purged)

\* The FREQ values icalrecurrencetype_from_string knows.
Frequencies == {"daily", "weekly", "monthly", "yearly"}

\* No UNTIL part.  An UNTIL is the local time t in zone, converted to UTC.
NoUntil == [t |-> NullStr, zone |-> NullStr]
\* A rule without by-parts.
NoBy == [tag \in {} |-> <<>>]

\* A rule with count and until that records nothing.
count_and_until_unchecked(c, recur) == c

\* recurrence_to_ical, lines 3865-3868: count and until exclude each other.
count_and_until(c, recur) ==
    IF json_object_get(recur, "count") # NULL
        /\ json_object_get(recur, "until") # NULL
    THEN invalidprop(invalidprop(c, "count"), "until")
    ELSE c

\* recurrence_to_ical, lines 3870-3879: count.
count_to_ical(c, recur) ==
    LET pe == readprop_r(recur, "count", FALSE, "i")
        r == readprop(c, recur, "count", FALSE, "i")
    IN IF pe > 0 /\ ~(json_object_get(recur, "count").i > 0
                      /\ json_object_get(recur, "until") = NULL)
       THEN invalidprop(r, "count") ELSE r

\* recurrence_to_ical, lines 3881-3894: until.
until_to_ical(c, recur) ==
    LET pe == readprop_r(recur, "until", FALSE, "s")
        r == readprop(c, recur, "until", FALSE, "s")
    IN IF pe > 0 /\ ~localdate_to_icaltime_ok(
                        json_object_get(recur, "until").s, c.tzstart,
                        c.is_allday)
       THEN invalidprop(r, "until") ELSE r

\* recurrence_to_ical, lines 3755-3863: the by-parts it writes with
\* recurrence_byX_to_ical: the key of the rule, the rule part printed, the
\* bounds, whether 0 is allowed, and the field name handed over.
ByParts ==
    <<[key |-> "byDate", tag |-> "BYDATE", lower |-> -31, upper |-> 31,
       allowZero |-> FALSE, fieldName |-> "byDate"],
      [key |-> "byYearDay", tag |-> "BYYEARDAY", lower |-> -366,
       upper |-> 366, allowZero |-> FALSE, fieldName |-> "byYearDay"],
      [key |-> "byWeekNo", tag |-> "BYWEEKNO", lower |-> -53, upper |-> 53,
       allowZero |-> FALSE, fieldName |-> "byWeekNo"],
      [key |-> "byHour", tag |-> "BYHOUR", lower |-> 0, upper |-> 23,
       allowZero |-> TRUE, fieldName |-> "byHour"],
      [key |-> "byMinute", tag |-> "BYMINUTE", lower |-> 0, upper |-> 59,
       allowZero |-> TRUE, fieldName |-> "byMinute"],
      [key |-> "bySecond", tag |-> "BYSECOND", lower |-> 0, upper |-> 59,
       allowZero |-> TRUE, fieldName |-> "bySecond"],
      [key |-> "bySetPosition", tag |-> "BYSETPOS", lower |-> 0,
       upper |-> 59, allowZero |-> TRUE, fieldName |-> "bySetPos"]>>

\* recurrence_byX_to_ical, lines 3595-3602: the entry is refused.
byX_err(jval, part) ==
    \/ jval.type # "integer"
    \/ (~part.allowZero /\ jval.i = 0)
    \/ jval.i < part.lower
    \/ jval.i > part.upper

\* recurrence_byX_to_ical, lines 3593-3614: the loop from entry i on.
RECURSIVE recurrence_byX_foreach(_, _, _, _)
recurrence_byX_foreach(c, byX, part, i) ==
    IF i >= json_array_size(byX) THEN c
    ELSE recurrence_byX_foreach(
            IF byX_err(byX.a[i + 1], part)
            THEN endprop(invalidprop(beginprop_idx(c, part.fieldName, i),
                                     NullStr))
            ELSE c,
            byX, part, i + 1)

\* recurrence_byX_to_ical
recurrence_byX_to_ical(c, byX, part) ==
    IF json_array_size(byX) = 0 THEN invalidprop(c, part.fieldName)
    ELSE recurrence_byX_foreach(c, byX, part, 0)

\* recurrence_to_ical, lines 3755-3863: the by-parts from ByParts[n] on.
RECURSIVE byX_to_ical(_, _, _)
byX_to_ical(c, recur, n) ==
    IF n > Len(ByParts) THEN c
    ELSE Strict(LAMBDA v : byX_to_ical(v, recur, n + 1),
            IF readprop_r(recur, ByParts[n].key, FALSE, "o") > 0
            THEN recurrence_byX_to_ical(c, recur.o[ByParts[n].key],
                                        ByParts[n])
            ELSE c)

\* The by-parts of the rule string: for each part printed, its values.
rule_by(recur) ==
    LET at == {n \in 1..Len(ByParts) :
                readprop_r(recur, ByParts[n].key, FALSE, "o") > 0}
    IN [tag \in {ByParts[n].tag : n \in at} |->
          LET n == CHOOSE m \in at : ByParts[m].tag = tag
              byX == recur.o[ByParts[n].key]
          IN [i \in 1..json_array_size(byX) |-> byX.a[i].i]]

\* recurrence_to_ical, lines 3896-3907: the rule string is parsed and the
\* RRULE added.  The string is held as the record of its parts: count 0 and
\* NoUntil stand for no COUNT and no UNTIL, by holds the by-parts under
\* the names they were printed with.
rrule_to_ical(c, recur) ==
    LET jcount == json_object_get(recur, "count")
        juntil == json_object_get(recur, "until")
        freq == IF readprop_r(recur, "frequency", TRUE, "s") > 0
                THEN recur.o["frequency"].s ELSE NullStr
        rt == [freq |-> freq,
               by |-> IF have_invalid_props(c) THEN NoBy ELSE rule_by(recur),
               count |-> IF jcount # NULL THEN jcount.i ELSE 0,
               until |-> IF juntil # NULL
                         THEN [t |-> juntil.s, zone |-> c.tzstart]
                         ELSE NoUntil]
    IN IF have_invalid_props(c) THEN c
       ELSE IF freq \in Frequencies
            THEN [c EXCEPT !.comp.rrule = Append(@, rt)]
            ELSE invalidprop([c EXCEPT !.code = "UNKNOWN"], NullStr)

\* recurrence_to_ical, for the keys frequency, count and until.
recurrence_to_ical(c0, recur) ==
    LET purged == [c0 EXCEPT !.comp.rrule = <<>>]
        b == beginprop(purged, "recurrenceRule")
        c1 == Strict(LAMBDA v : byX_to_ical(v, recur, 1),
                     readprop(b, recur, "frequency", TRUE, "s"))
        c2 == Strict(LAMBDA v : count_and_until(v, recur), c1)
        c3 == Strict(LAMBDA v : count_to_ical(v, recur), c2)
        c4 == Strict(LAMBDA v : until_to_ical(v, recur), c3)
        c5 == Strict(LAMBDA v : rrule_to_ical(v, recur), c4)
    IN IF ~JNOTNULL(recur) THEN purged ELSE endprop(c5)

\* alertaction_to_ical, lines 3368-3388: the body of the loop for the
\* recipient t at index idx; att holds the ATTENDEEs of the alarm.
alertto_body(ca, idx, t) ==
    LET b == beginprop_idx(ca.c, "to", idx)
        pe == readprop_r(t, "email", TRUE, "s")
        c1 == readprop(b, t, "email", TRUE, "s")
        c2 == Strict(LAMBDA v : readprop(v, t, "name", FALSE, "s"), c1)
    IN Strict(LAMBDA v :
            [c |-> endprop(v),
             att |-> IF pe > 0 /\ ~have_invalid_props(v)
                     THEN Append(ca.att, t.o["email"].s) ELSE ca.att], c2)

RECURSIVE alertto_foreach(_, _, _)
alertto_foreach(ca, to, idx) ==
    IF idx >= Len(to) THEN ca
    ELSE Strict(LAMBDA v : alertto_foreach(v, to, idx + 1),
                alertto_body(ca, idx, to[idx + 1]))

\* alertaction_to_ical, lines 3360-3391, for the key to.
alertaction_to(c, action) ==
    LET to == json_object_get(action, "to")
        pe == readprop_r(action, "to", TRUE, "o")
        r == readprop(c, action, "to", TRUE, "o")
    IN IF pe > 0 /\ json_array_size(to) > 0
       THEN Strict(LAMBDA v : alertto_foreach([c |-> v, att |-> <<>>],
                                              to.a, 0), r)
       ELSE IF pe = 0 \/ (pe > 0 /\ to.type # "array")
            THEN [c |-> invalidprop(r, "to"), att |-> <<>>]
            ELSE [c |-> r, att |-> <<>>]

\* utcdate_to_icaltime, lines 2618-2634: the string ends with Z and the
\* rest is a local date; the time is in UTC.
UtcDates == {l \o "Z" : l \in LocalDates}
utcdate_to_icaltime_ok(s) == s \in UtcDates
utcdate_to_icaltime(s) ==
    [t |-> CHOOSE l \in LocalDates : l \o "Z" = s, zone |-> utc,
     is_date |-> FALSE]

\* alertaction_to_ical, lines 3436-3474: snoozed and acknowledged.  ca
\* holds the context and the attendees of the alarm.
alerttimes_to_ical(ca, action, type) ==
    LET pes == readprop_r(action, "snoozed", FALSE, "s")
        pea == readprop_r(action, "acknowledged", FALSE, "s")
        oks == pes > 0 /\ utcdate_to_icaltime_ok(action.o["snoozed"].s)
        oka == pea > 0 /\ utcdate_to_icaltime_ok(action.o["acknowledged"].s)
    IN [c |-> Strict(LAMBDA v :
                Strict(LAMBDA w : IF pea > 0 /\ ~oka
                                  THEN invalidprop(w, "acknowledged") ELSE w,
                       readprop(v, action, "acknowledged", FALSE, "s")),
                Strict(LAMBDA v : IF pes > 0 /\ ~oks
                                  THEN invalidprop(v, "snoozed") ELSE v,
                       readprop(ca.c, action, "snoozed", FALSE, "s"))),
        is_unknown |-> FALSE, type |-> type, att |-> ca.att,
        snoozed |-> IF oks THEN utcdate_to_icaltime(action.o["snoozed"].s)
                    ELSE NullTime,
        acknowledged |->
            IF oka THEN utcdate_to_icaltime(action.o["acknowledged"].s)
            ELSE NullTime]

\* alertaction_to_ical: the context, whether the type is unknown, the
\* ACTION and the attendees of the alarm, and the times of the snooze
\* alarm and of ACKNOWLEDGED.
alertaction_to_ical(c, action) ==
    LET pe == readprop_r(action, "type", TRUE, "s")
        c1 == readprop(c, action, "type", TRUE, "s")
        type == IF pe > 0 /\ action.o["type"].s \in {"email", "display"}
                THEN action.o["type"].s ELSE "NONE"
    IN Strict(LAMBDA v :
        IF have_invalid_props(v) \/ type = "NONE"
        THEN [c |-> v, is_unknown |-> type = "NONE", type |-> type,
              att |-> <<>>, snoozed |-> NullTime, acknowledged |-> NullTime]
        ELSE Strict(LAMBDA ca : alerttimes_to_ical(ca, action, type),
                    IF type = "email" THEN alertaction_to(v, action)
                    ELSE [c |-> v, att |-> <<>>]), c1)

\* alerts_to_ical, lines 3500-3518: offset.
alertoffset_to_ical(c, alert) ==
    LET pe == readprop_r(alert, "offset", TRUE, "s")
        r == readprop(c, alert, "offset", TRUE, "s")
    IN IF pe > 0 /\ is_bad_duration(alert.o["offset"].s)
       THEN invalidprop(r, "offset") ELSE r

\* alerts_to_ical, lines 3520-3540: relativeTo.
alertrelativeto_to_ical(c, alert) ==
    LET pe == readprop_r(alert, "relativeTo", TRUE, "s")
        r == readprop(c, alert, "relativeTo", TRUE, "s")
    IN IF pe > 0 /\ alert.o["relativeTo"].s
                        \notin {"before-start", "after-start",
                                "before-end", "after-end"}
       THEN invalidprop(r, "relativeTo") ELSE r

\* alertaction_to_ical, lines 3440-3460: the snooze alarm of alarm id, a
\* clone of the alarm as it is then, without UID and with a RELATED-TO of
\* RELTYPE SNOOZE and an absolute TRIGGER; none without snoozed.
snooze_to_ical(id, act) ==
    IF act.snoozed = NullTime THEN <<>>
    ELSE <<[uid |-> NullStr, action |-> act.type, att |-> act.att,
            offset |-> "PT0S", is_neg |-> FALSE, related |-> "START",
            time |-> act.snoozed, relatedto |-> id,
            acknowledged |-> NullTime]>>

\* alerts_to_ical, lines 3542-3562: the action, and the VALARM.
alertvalarm_to_ical(c, id, alert) ==
    LET offset == IF readprop_r(alert, "offset", TRUE, "s") > 0
                  THEN alert.o["offset"].s ELSE NullStr
        s == IF readprop_r(alert, "relativeTo", TRUE, "s") > 0
             THEN alert.o["relativeTo"].s ELSE NullStr
        rel == IF s \in {"before-start", "after-start"} THEN "START"
               ELSE IF s \in {"before-end", "after-end"} THEN "END"
               ELSE "NONE"
        is_neg == IF s \in {"before-start", "before-end"} THEN TRUE
                  ELSE dur_is_neg(offset)
        pe == readprop_r(alert, "action", TRUE, "o")
        c3 == readprop(c, alert, "action", TRUE, "o")
    IN IF pe > 0
       THEN Strict(LAMBDA act :
                IF act.is_unknown \/ have_invalid_props(act.c)
                THEN endprop(endprop([act.c EXCEPT !.comp.alarms =
                        @ \o snooze_to_ical(id, act)]))
                ELSE endprop([endprop(act.c) EXCEPT !.comp.alarms =
                        Append(@ \o snooze_to_ical(id, act),
                               [uid |-> id, action |-> act.type,
                                att |-> act.att, offset |-> offset,
                                is_neg |-> is_neg, related |-> rel,
                                time |-> NullTime, relatedto |-> NullStr,
                                acknowledged |-> act.acknowledged])]),
                alertaction_to_ical(beginprop(c3, "action"),
                                    json_object_get(alert, "action")))
       ELSE \* the action is missing, which readprop has recorded
            endprop(c3)

\* alerts_to_ical, the body of the loop for one alert.
alert_to_ical(c, id, alert) ==
    LET b == beginprop_key(c, "alerts", id)
        c1 == alertoffset_to_ical(b, alert)
        c2 == Strict(LAMBDA v : alertrelativeto_to_ical(v, alert), c1)
    IN Strict(LAMBDA v : alertvalarm_to_ical(v, id, alert), c2)

RECURSIVE alerts_foreach(_, _, _)
alerts_foreach(c, alerts, ids) ==
    IF ids = <<>> THEN c
    ELSE Strict(LAMBDA v : alerts_foreach(v, alerts, Tail(ids)),
                alert_to_ical(c, Head(ids), alerts.o[Head(ids)]))

\* alerts_to_ical: all VALARMs are purged first.
alerts_to_ical(c, alerts) ==
    LET purged == [c EXCEPT !.comp.alarms = <<>>] IN
    IF ~JNOTNULL(alerts) THEN purged
    ELSE Strict(LAMBDA v : alerts_foreach(v, alerts, Keys(alerts)), purged)

(***************************************************************************)
(* The read path over the component, as far as the write path calls it:   *)
(* calendarevent_from_ical for the update overlay and for the master that  *)
(* the override patches are applied to.                                    *)
(***************************************************************************)

\* localdate_from_icaltime_r: the clock time of dt, whatever its zone.
localdate_from_icaltime_r(dt) == IF dt.t = NullStr THEN Epoch ELSE dt.t

\* icaltime_convert_to_zone and back to a local date.
convert_to_zone(t, from, to) ==
    IF from = to \/ from = NullStr \/ to = NullStr THEN t ELSE Shifted

\* links_from_ical over the ATTACH properties from position i on.
RECURSIVE links_from_ical(_, _, _)
links_from_ical(attach, i, r) ==
    IF i > Len(attach)
    THEN (IF json_object_size(r) = 0 THEN JNull ELSE r)
    ELSE LET p == attach[i]
             link == JObj(IF p.rel = NullStr
                          THEN [k \in {"href"} |-> JStr(p.href)]
                          ELSE [k \in {"href", "rel"} |->
                                   IF k = "href" THEN JStr(p.href)
                                   ELSE JStr(p.rel)])
         IN Strict(LAMBDA w : links_from_ical(attach, i + 1, w),
                   json_object_set(r, LinkId(p, r), link))

\* location_from_ical, for the keys name, uri, rel and timeZone.
location_from_ical(l) ==
    JObj([k \in {"name", "uri", "rel", "timeZone"} |->
        CASE k = "name" -> JStr(IF l.name = NullStr THEN "" ELSE l.name)
          [] k = "uri" -> IF l.uri = NullStr THEN JNull ELSE JStr(l.uri)
          [] k = "rel" -> JStr(IF l.rel # NullStr THEN l.rel
                               ELSE IF l.kind = "CONFERENCE" THEN "virtual"
                               ELSE "unknown")
          [] OTHER -> IF l.tzid = NullStr THEN JNull ELSE JStr(l.tzid)])

RECURSIVE locations_of_kind(_, _, _, _)
locations_of_kind(location, kinds, i, r) ==
    IF i > Len(location) THEN r
    ELSE locations_of_kind(location, kinds, i + 1,
            IF location[i].kind \in kinds
            THEN json_object_set(r, location[i].id,
                                 location_from_ical(location[i]))
            ELSE r)

\* locations_from_ical: the end time zone, the first LOCATION, every
\* CONFERENCE, every X-JMAP-LOCATION.
locations_from_ical(comp) ==
    LET tzidstart == tzid_from_ical(comp.dtstart)
        tzidend == tzid_from_ical(comp.dtend)
        r0 == IF tzidstart # NullStr /\ tzidend # NullStr
                 /\ tzidstart # tzidend
              THEN json_object_set(EmptyObject,
                      IF comp.dtend.id = NullStr THEN "hexkey"
                      ELSE comp.dtend.id,
                      JObj([k \in {"timeZone", "rel"} |->
                              IF k = "rel" THEN JStr("end")
                              ELSE JStr(tzidend)]))
              ELSE EmptyObject
        first == SelectSeq(comp.location, LAMBDA l : l.kind = "LOCATION")
        r1 == IF first = <<>> THEN r0
              ELSE json_object_set(r0, first[1].id,
                                   location_from_ical(first[1]))
        r2 == locations_of_kind(comp.location, {"CONFERENCE"}, 1, r1)
        r3 == locations_of_kind(comp.location, {"X-JMAP-LOCATION"}, 1, r2)
    IN Strict(LAMBDA w : IF json_object_size(w) = 0 THEN JNull ELSE w, r3)

\* recurrence_from_ical, for the parts FREQ, COUNT and UNTIL.
\* recurrence_from_ical, lines 864-898: the rule parts read into by-keys.
ByKeys ==
    [BYMONTHDAY |-> "byDate", BYYEARDAY |-> "byYearDay",
     BYWEEKNO |-> "byWeekNo", BYHOUR |-> "byHour", BYMINUTE |-> "byMinute",
     BYSECOND |-> "bySecond", BYSETPOS |-> "bySetPosition"]

\* recurrence_byX_fromical: the values in ascending order.
recurrence_byX_fromical(byX) ==
    LET sorted == SortSeq(byX, LAMBDA a, b : a < b)
    IN JArr([i \in 1..Len(sorted) |-> JInt(sorted[i])])

recurrence_from_ical(comp, tzid) ==
    IF comp.rrule = <<>> THEN JNull
    ELSE LET rrule == comp.rrule[1]
             tags == DOMAIN rrule.by \cap DOMAIN ByKeys
             keys == {"frequency"}
                     \cup {ByKeys[tag] : tag \in tags}
                     \cup (IF rrule.count # 0 THEN {"count"}
                           ELSE IF rrule.until # NoUntil THEN {"until"}
                           ELSE {})
         IN JObj([k \in keys |->
                CASE k = "frequency" -> JStr(rrule.freq)
                  [] k = "count" -> JInt(rrule.count)
                  [] \E tag \in tags : ByKeys[tag] = k ->
                        recurrence_byX_fromical(
                            rrule.by[CHOOSE tag \in tags : ByKeys[tag] = k])
                  [] OTHER -> JStr(convert_to_zone(rrule.until.t,
                                       rrule.until.zone, tz_from_tzid(tzid)))])

\* utcdate_from_icaltime_r, lines 686-704: the time in UTC, with Z.
utcdate_from_icaltime_r(dt) == dt.t \o "Z"

\* alertaction_from_ical, lines 1628-1647: the keys type and to; NULL for
\* an email alarm without a mail address and for the other actions.
alerttype_from_ical(alarm) ==
    IF alarm.action = "email"
    THEN IF alarm.att = <<>> THEN NULL
         ELSE JObj([k \in {"type", "to"} |->
                IF k = "type" THEN JStr("email")
                ELSE JArr([i \in 1..Len(alarm.att) |->
                        JObj([j \in {"name", "email"} |->
                            IF j = "name" THEN JStr("")
                            ELSE JStr(alarm.att[i])])])])
    ELSE IF alarm.action = "display"
         THEN JObj([k \in {"type"} |-> JStr("display")])
         ELSE NULL

\* hash_lookup(uid, snoozes): the snooze alarms of alarms that name uid,
\* the one inserted last first.
snooze_lookup(alarms, uid) ==
    SelectSeq([i \in 1..Len(alarms) |-> alarms[Len(alarms) + 1 - i]],
              LAMBDA a : a.relatedto # NullStr /\ a.relatedto = uid)

\* The action without the time of the snooze alarm.
alertaction_unsnoozed(alarms, alarm) ==
    LET action == alerttype_from_ical(alarm)
    IN IF action = NULL \/ alarm.acknowledged = NullTime THEN action
       ELSE json_object_set(action, "acknowledged",
                JStr(utcdate_from_icaltime_r(alarm.acknowledged)))

\* alertaction_from_ical: acknowledged from the alarm, snoozed from the
\* TRIGGER of the snooze alarm that names its UID (lines 1654-1677).
alertaction_from_ical(alarms, alarm) ==
    LET action == alerttype_from_ical(alarm)
        snoozes == IF alarm.uid = NullStr THEN <<>>
                   ELSE snooze_lookup(alarms, alarm.uid)
        keys == (IF alarm.acknowledged # NullTime THEN {"acknowledged"}
                 ELSE {})
                \cup (IF snoozes # <<>> /\ snoozes[1].time # NullTime
                      THEN {"snoozed"} ELSE {})
    IN IF action = NULL THEN NULL
       ELSE json_object_update(action,
                JObj([k \in keys |->
                    IF k = "acknowledged"
                    THEN JStr(utcdate_from_icaltime_r(alarm.acknowledged))
                    ELSE JStr(utcdate_from_icaltime_r(snoozes[1].time))]))

\* alerts_from_ical, lines 1750-1778: the duration between the alarm and
\* the start or the end of comp, in minutes.  The trigger of an alarm is
\* its offset with is_neg, or its time.
alert_duration(comp, alarm) ==
    IF dur_as_int(alarm.offset) # 0 \/ alarm.time = NullTime
    THEN IF alarm.is_neg /\ dur_as_int(alarm.offset) > 0
         THEN 0 - dur_as_int(alarm.offset) ELSE dur_as_int(alarm.offset)
    ELSE timet_utc(alarm.time)
         - (IF alarm.related = "END"
            THEN timet_utc(comp.dtstart)
                 + dur_as_int(duration_from_ical(comp))
            ELSE timet_utc(comp.dtstart))

\* alerts_from_ical, lines 1758-1764 and 1788-1808: one alert.  The RELATED
\* parameter is "START", "END", "NONE" for another value, or "ABSENT".
alert_from_ical(comp, alarm, action) ==
    LET is_neg == IF dur_as_int(alarm.offset) # 0 \/ alarm.time = NullTime
                  THEN alarm.is_neg
                  ELSE alert_duration(comp, alarm) < 0
        minutes == alert_duration(comp, alarm)
    IN JObj([k \in {"relativeTo", "offset", "action"} |->
        CASE k = "relativeTo" ->
                JStr(IF is_neg
                     THEN (IF alarm.related = "END" THEN "before-end"
                           ELSE "before-start")
                     ELSE (IF alarm.related = "END" THEN "after-end"
                           ELSE "after-start"))
          [] k = "offset" ->
                JStr(dur_as_ical_string(IF minutes < 0 THEN 0 - minutes
                                        ELSE minutes))
          [] OTHER -> action])

\* alerts_from_ical over the VALARMs of comp from position i on.
RECURSIVE alerts_from_ical(_, _, _)
alerts_from_ical(comp, i, r) ==
    IF i > Len(comp.alarms)
    THEN (IF json_object_size(r) = 0 THEN JNull ELSE r)
    ELSE alerts_from_ical(comp, i + 1,
            IF comp.alarms[i].relatedto # NullStr
                \/ alerttype_from_ical(comp.alarms[i]) = NULL
                \/ comp.alarms[i].related = "NONE"
            THEN r
            ELSE json_object_set(r, comp.alarms[i].uid,
                    alert_from_ical(comp, comp.alarms[i],
                        alertaction_from_ical(comp.alarms,
                                              comp.alarms[i]))))

\* jmap_patchobject_create(a, b) of imap/jmap_util.c, for patches of
\* top-level keys: the keys of b whose value is not the one a has.
jmap_patchobject_create(a, b) ==
    Strict2(LAMBDA src_, dst :
                JObj([k \in {x \in DOMAIN dst.o :
                                json_object_get(src_, x) # dst.o[x]} |->
                        dst.o[k]]), a, b)

\* jmap_patchobject_apply(val, patch) of imap/jmap_util.c, for patches of
\* top-level keys: a JSON null removes the key, any other value sets it.
jmap_patchobject_apply(val, patch) ==
    Strict2(LAMBDA a, b :
        LET dels == {k \in DOMAIN b.o : json_is_null(b.o[k])}
            sets == DOMAIN b.o \ dels
        IN JObj([k \in (DOMAIN a.o \ dels) \cup sets |->
                    IF k \in sets THEN b.o[k] ELSE a.o[k]]), val, patch)

\* override_rdate_from_ical and override_exdate_from_ical over the RDATE or
\* EXDATE properties dts from position i on.
RECURSIVE override_dates_from_ical(_, _, _, _, _)
override_dates_from_ical(dts, tzid_start, value, i, r) ==
    IF i > Len(dts) THEN r
    ELSE override_dates_from_ical(dts, tzid_start, value, i + 1,
            json_object_set(r,
                convert_to_zone(localdate_from_icaltime_r(dts[i]),
                                dts[i].zone, tzid_start),
                value))

status_from_ical(status) ==
    CASE status = "TENTATIVE" -> "tentative"
      [] status = "CONFIRMED" -> "confirmed"
      [] status = "CANCELLED" -> "cancelled"
      [] OTHER -> NullStr

privacy_from_ical(class) ==
    CASE class = "CONFIDENTIAL" -> "secret"
      [] class = "PRIVATE" -> "private"
      [] OTHER -> "public"

\* Every URI taken as an address.
mailaddr_of_any_uri(uri) == uri

\* mailaddr_from_uri: the address of a mailto: URI, whatever the case of
\* its scheme; NULL for any other URI.
mailaddr_from_uri(uri) ==
    CASE uri = "mailto:a" -> "a"
      [] uri = "mailto:b" -> "b"
      [] uri = "MAILTO:c" -> "c"
      [] OTHER -> NullStr

\* strcasecmp(o, a) = 0 for the URIs of the model.
uri_strcasecmp_eq(o, a) ==
    (IF o = "MAILTO:c" THEN "mailto:c" ELSE o)
        = (IF a = "MAILTO:c" THEN "mailto:c" ELSE a)

\* replyto_from_ical without the X-RSVP-URI parameter.
replyto_from_ical(comp) ==
    IF comp.organizer # NullStr
    THEN JObj([k \in {"imip"} |-> JStr(comp.organizer)])
    ELSE JNull

\* participant_from_ical for ATTENDEE i of as, which has no CUTYPE, ROLE,
\* X-JMAP-ROLE or location parameter; orga is the ORGANIZER value.  The
\* rsvpResponse is the one that the loop finds in its first iteration.
participant_from_ical(as, i, orga) ==
    IF mailaddr_from_uri(as[i].uri) = NullStr THEN NULL
    ELSE JObj([k \in {"email", "name", "roles", "rsvpResponse"} |->
        CASE k = "email" -> JStr(mailaddr_from_uri(as[i].uri))
          [] k = "name" -> JStr(IF as[i].cn = NullStr THEN "" ELSE as[i].cn)
          [] k = "roles" ->
                JArr(<<JStr(IF orga # NullStr
                                /\ uri_strcasecmp_eq(orga, as[i].uri)
                            THEN "owner" ELSE "attendee")>>)
          [] OTHER -> JStr(RsvpIteration(as, i, i, 0).rsvp)])

\* participants_from_ical, lines 1397-1408: the loop over the ATTENDEEs as
\* from position i on.  json_object_set_new refuses a NULL key and a NULL
\* value.
RECURSIVE attendees_from_ical(_, _, _, _)
attendees_from_ical(as, orga, i, r) ==
    IF i > Len(as) THEN r
    ELSE attendees_from_ical(as, orga, i + 1,
            Strict2(LAMBDA id, p :
                        IF id = NullStr \/ p = NULL THEN r
                        ELSE json_object_set(r, id, p),
                    IF as[i].id # NullStr THEN as[i].id
                    ELSE mailaddr_from_uri(as[i].uri),
                    participant_from_ical(as, i, orga)))

participants_from_ical(comp) ==
    Strict(LAMBDA r : IF json_object_size(r) = 0 THEN JNull ELSE r,
           attendees_from_ical(comp.attendee, comp.organizer, 1, EmptyObject))

\* An exception that is read with every key of a master.
keys_in_every_event(is_exc) == {}

\* calendarevent_from_ical, lines 2241-2265, 2402 and 2458: the keys that
\* are left out of an exception.
keys_not_in_exception(is_exc) ==
    IF is_exc THEN {"isAllDay", "uid", "recurrenceRule", "replyTo"} ELSE {}

\* calendarevent_from_ical with ctx->wantprops NULL, for the keys of the
\* model but recurrenceOverrides; is_exc is ctx->master != NULL.
event_from_ical(comp, is_exc) ==
    LET tzid_start == IF comp.dtstart.is_date THEN NullStr
                      ELSE tzid_from_ical(comp.dtstart)
        keys == ({"@type", "sequence", "title", "description", "links",
                  "locations",
                  "start", "timeZone", "duration", "freeBusyStatus",
                  "privacy", "alerts", "created", "updated",
                  "participants", "isAllDay", "recurrenceRule", "replyTo"}
                 \cup (IF comp.uid # NullStr THEN {"uid"} ELSE {})
                 \cup (IF comp.color # <<>> THEN {"color"} ELSE {})
                 \cup (IF comp.priority # <<>> THEN {"priority"} ELSE {})
                 \cup (IF status_from_ical(comp.status) # NullStr
                       THEN {"status"} ELSE {}))
                \ keys_not_in_exception(is_exc)
    IN JObj([k \in keys |->
        CASE k = "isAllDay" ->
                IF comp.dtstart.is_date THEN JTrue ELSE JFalse
          [] k = "@type" -> JStr("jsevent")
          [] k = "uid" -> JStr(comp.uid)
          [] k \in {"created", "updated"} ->
                Strict(LAMBDA t : IF t = NullStr THEN JNull ELSE JStr(t),
                       IF k = "created" THEN comp.created ELSE comp.dtstamp)
          [] k = "replyTo" -> replyto_from_ical(comp)
          [] k = "participants" -> participants_from_ical(comp)
          [] k = "priority" -> JInt(comp.priority[1])
          [] k = "sequence" -> JInt(comp.sequence)
          [] k = "title" ->
                JStr(IF comp.summary = NullStr THEN "" ELSE comp.summary)
          [] k = "description" ->
                JStr(IF comp.description = NullStr THEN ""
                     ELSE comp.description)
          [] k = "color" -> JStr(comp.color[1])
          [] k = "links" -> links_from_ical(comp.attach, 1, EmptyObject)
          [] k = "locations" -> locations_from_ical(comp)
          [] k = "start" -> JStr(localdate_from_icaltime_r(comp.dtstart))
          [] k = "timeZone" ->
                IF tzid_start # NullStr THEN JStr(tzid_start) ELSE JNull
          [] k = "duration" -> JStr(duration_from_ical(comp))
          [] k = "recurrenceRule" -> recurrence_from_ical(comp, tzid_start)
          [] k = "status" -> JStr(status_from_ical(comp.status))
          [] k = "freeBusyStatus" ->
                JStr(IF comp.transp = "TRANSPARENT" THEN "free" ELSE "busy")
          [] k = "privacy" -> JStr(privacy_from_ical(comp.class))
          [] OTHER -> alerts_from_ical(comp, 1, EmptyObject)])

\* An exception that keeps every key it was read with.
override_keep(ex, s) == ex

\* overrides_from_ical, lines 1052-1061: updated, created and a start that
\* is the recurrence id s are deleted from the exception ex.
override_strip(ex, s) ==
    Strict(LAMBDA w :
                IF json_string_value(json_object_get(w, "start")) = s
                THEN json_object_del(w, "start") ELSE w,
           json_object_del(json_object_del(ex, "updated"), "created"))

\* overrides_from_ical, lines 1027-1070: the patches of the exception
\* components excs from position i on.  An exception is converted by
\* calendarevent_from_ical with ctx->master set, which leaves its
\* recurrenceOverrides out.
RECURSIVE exceptions_from_ical(_, _, _, _)
exceptions_from_ical(excs, event, i, r) ==
    IF i > Len(excs) THEN r
    ELSE exceptions_from_ical(excs, event, i + 1,
            json_object_set(r, localdate_from_icaltime_r(excs[i].recurid),
                jmap_patchobject_create(event,
                    override_strip(event_from_ical(excs[i], TRUE),
                        localdate_from_icaltime_r(excs[i].recurid)))))

overrides_from_ical(comp, excs, event) ==
    Strict(LAMBDA w : IF json_object_size(w) = 0 THEN JNull ELSE w,
        json_object_update(
            override_dates_from_ical(comp.exdate,
                IF comp.dtstart.is_date THEN NullStr
                ELSE tzid_from_ical(comp.dtstart),
                JObj([k \in {"excluded"} |-> JTrue]), 1,
                override_dates_from_ical(comp.rdate, NullStr, EmptyObject,
                                         1, EmptyObject)),
            exceptions_from_ical(excs, event, 1, EmptyObject)))

\* calendarevent_from_ical of the main VEVENT; excs are the other VEVENTs
\* of the container.
calendarevent_from_ical(comp, excs) ==
    Strict(LAMBDA w : json_object_set(w, "recurrenceOverrides",
                                      overrides_from_ical(comp, excs, w)),
           event_from_ical(comp, FALSE))

(***************************************************************************)
(* calendarevent_to_ical and overrides_to_ical.                            *)
(***************************************************************************)

\* The patch keys that overrides_to_ical ignores.
ForbiddenKeys ==
    {"uid", "relatedTo", "prodId", "isAllDay", "recurrenceRule",
     "recurrenceOverrides", "replyTo", "participantId"}

\* calendarevent_to_ical, lines 4600-4663: status, freeBusyStatus, privacy.
status_to_ical(c, event, is_create) ==
    LET pe == readprop_r(event, "status", FALSE, "s")
        r == readprop(c, event, "status", FALSE, "s")
        val == IF pe > 0 THEN event.o["status"].s ELSE NullStr
        status == IF pe > 0
                  THEN CASE val = "confirmed" -> "CONFIRMED"
                         [] val = "cancelled" -> "CANCELLED"
                         [] val = "tentative" -> "TENTATIVE"
                         [] OTHER -> "NONE"
                  ELSE IF pe = 0 /\ is_create THEN "CONFIRMED" ELSE "NONE"
        c1 == IF pe > 0 /\ status = "NONE" THEN invalidprop(r, "status") ELSE r
    IN IF status # "NONE" THEN [c1 EXCEPT !.comp.status = status] ELSE c1

freebusystatus_to_ical(c, event) ==
    LET pe == readprop_r(event, "freeBusyStatus", FALSE, "s")
        r == readprop(c, event, "freeBusyStatus", FALSE, "s")
        val == IF pe > 0 THEN event.o["freeBusyStatus"].s ELSE NullStr
        v == CASE val = "free" -> "TRANSPARENT"
               [] val = "busy" -> "OPAQUE"
               [] OTHER -> "NONE"
    IN IF pe > 0
       THEN IF v = "NONE" THEN invalidprop(r, "freeBusyStatus")
            ELSE [r EXCEPT !.comp.transp = v]
       ELSE r

privacy_to_ical(c, event) ==
    LET pe == readprop_r(event, "privacy", FALSE, "s")
        r == readprop(c, event, "privacy", FALSE, "s")
        val == IF pe > 0 THEN event.o["privacy"].s ELSE NullStr
        v == CASE val = "public" -> "PUBLIC"
               [] val = "private" -> "PRIVATE"
               [] val = "secret" -> "CONFIDENTIAL"
               [] OTHER -> "NONE"
    IN IF pe > 0
       THEN IF v = "NONE" THEN invalidprop(r, "privacy")
            ELSE [r EXCEPT !.comp.class = v]
       ELSE r

\* calendarevent_to_ical, lines 4556-4565, 4582-4591, 4703-4711: an object
\* valued key is handed on when it is JSON null or not empty.
object_to_ical(c, event, name) ==
    LET pe == readprop_r(event, name, FALSE, "o")
        val == json_object_get(event, name)
    IN IF pe > 0
       THEN IF json_is_null(val) \/ json_object_size(val) > 0
            THEN CASE name = "links" -> links_to_ical(c, val)
                   [] name = "locations" -> locations_to_ical(c, val)
                   [] OTHER -> alerts_to_ical(c, val)
            ELSE invalidprop(c, name)
       ELSE c

\* calendarevent_to_ical, lines 4432-4454: excluded, uid, @type, isAllDay.
head_to_ical(c, event, is_create) ==
    LET excluded == json_object_get(event, "excluded")
        c1 == IF excluded # NULL /\ excluded # JFalse
              THEN invalidprop(c, "excluded") ELSE c
        \* icalproperty_set_uid refuses the NULL uid of an exception context
        c2 == IF c.uid # NullStr THEN [c1 EXCEPT !.comp.uid = c.uid] ELSE c1
        jtype == json_object_get(event, "@type")
        c3 == Strict(LAMBDA v :
                IF JNOTNULL(jtype) /\ json_is_string(jtype)
                THEN IF jtype.s # "jsevent" THEN invalidprop(v, "@type") ELSE v
                ELSE IF JNOTNULL(jtype) THEN invalidprop(v, "@type") ELSE v,
                c2)
        pe == readprop_r(event, "isAllDay", is_create, "b")
    IN Strict(LAMBDA v :
            IF pe > 0
            THEN [readprop(v, event, "isAllDay", is_create, "b")
                    EXCEPT !.is_allday = event.o["isAllDay"] = JTrue]
            ELSE readprop(v, event, "isAllDay", is_create, "b"), c3)

\* icaltime_current_time_with_zone(utc) of line 4432, as a UTC date.
Now == "2020-02-01T00:00:00Z"

\* calendarevent_to_ical, lines 4497-4522: created, updated, sequence,
\* priority and title.
priority_title_to_ical(c, event, is_create) ==
    LET jprio == json_object_get(event, "priority")
        c5 == IF is_create
              THEN [c EXCEPT !.comp.created = Now, !.comp.dtstamp = Now,
                             !.comp.sequence = 0]
              ELSE [c EXCEPT !.comp.dtstamp = Now]
        c6 == IF json_integer_value(jprio) >= 0
                 \/ json_integer_value(jprio) <= 9
              THEN [c5 EXCEPT !.comp.priority =
                       Append(@, json_integer_value(jprio))]
              ELSE IF JNOTNULL(jprio) THEN invalidprop(c5, "priority")
              ELSE c5
        pe == readprop_r(event, "title", is_create, "s")
    IN Strict(LAMBDA v :
            IF pe > 0
            THEN [readprop(v, event, "title", is_create, "s")
                    EXCEPT !.comp.summary = event.o["title"].s]
            ELSE readprop(v, event, "title", is_create, "s"), c6)

\* calendarevent_to_ical, lines 4524-4543: description and color.  The
\* description is set, the color is added to the colors there are.
description_color_to_ical(c, event) ==
    LET desc == json_object_get(event, "description")
        color == json_object_get(event, "color")
        c1 == IF readprop_r(event, "description", FALSE, "s") > 0
                 /\ desc.s # ""
              THEN [c EXCEPT !.comp.description = desc.s]
              ELSE readprop(c, event, "description", FALSE, "s")
    IN IF readprop_r(event, "color", FALSE, "s") > 0 /\ color.s # ""
       THEN [c1 EXCEPT !.comp.color = Append(@, color.s)]
       ELSE readprop(c1, event, "color", FALSE, "s")

\* calendarevent_to_ical, lines 4432-4711, for the keys excluded, uid,
\* @type, isAllDay, timeZone, locations, duration, start, sequence,
\* priority, title, description, color, links, recurrenceRule, status,
\* freeBusyStatus, privacy and alerts.  The component is c0.comp.
event_to_ical(c0, event, is_create, is_exc) ==
    \* the steps in the order of the code, the first one innermost
    Strict(LAMBDA c13 : object_to_ical(c13, event, "alerts"),
    Strict(LAMBDA c12 : privacy_to_ical(c12, event),
    Strict(LAMBDA c11 : freebusystatus_to_ical(c11, event),
    Strict(LAMBDA c10 : status_to_ical(c10, event, is_create),
    Strict(LAMBDA c9 :
            IF readprop_r(event, "recurrenceRule", FALSE, "o") > 0 /\ ~is_exc
            THEN recurrence_to_ical(c9,
                    json_object_get(event, "recurrenceRule"))
            ELSE c9,
    Strict(LAMBDA c8 : object_to_ical(c8, event, "locations"),
    Strict(LAMBDA c7 : object_to_ical(c7, event, "links"),
    Strict(LAMBDA c6 : description_color_to_ical(c6, event),
    Strict(LAMBDA c5 : priority_title_to_ical(c5, event, is_create),
    Strict(LAMBDA c4 : startend_to_ical(c4, event),
           head_to_ical(c0, event, is_create)))))))))))

\* The cached exception with recurrence id id: its position in recurs, 0
\* for none.
hash_del(id, recurs) ==
    LET at == {i \in 1..Len(recurs) :
                localdate_from_icaltime_r(recurs[i].recurid) = id}
    IN IF at = {} THEN 0 ELSE CHOOSE i \in at : \A j \in at : i <= j

\* overrides_to_ical, lines 4356-4391: the exception component of override
\* id.  st holds the context c and the cache recurs.  The exception is
\* converted by calendarevent_to_ical with JMAPICAL_EXC_MODE, which neither
\* overlays the event nor writes recurrenceRule and recurrenceOverrides.
exception_to_ical(st, master, id, override, start) ==
    LET c == st.c
        patch == IF json_object_get(override, "start") = NULL
                 THEN json_object_set(override, "start", JStr(id))
                 ELSE override
        ex == jmap_patchobject_apply(master, patch)
        at == hash_del(id, st.recurs)
        excomp0 == IF at # 0 THEN st.recurs[at]
                   ELSE [c.comp EXCEPT !.rdate = <<>>, !.exdate = <<>>,
                                       !.rrule = <<>>]
        excomp == [excomp0 EXCEPT !.recurid =
                      [start EXCEPT !.zone = dtprop_zone(start, c.tzstart)]]
    IN [c |-> Strict(LAMBDA toctx :
                endprop([(IF have_invalid_props(toctx)
                          THEN invalidprop_append(c, toctx.invalid) ELSE c)
                    EXCEPT
                    !.excs = Append(@, toctx.comp),
                    !.code = toctx.code,
                    !.aborted = @ \/ toctx.aborted,
                    !.ub = @ \/ toctx.ub,
                    !.injected = IF json_object_get(override, "start") = NULL
                                 THEN @ \cup {id} ELSE @]),
                Strict2(LAMBDA v, w : event_to_ical(v, w, ~is_update(c), TRUE),
                        context_new(c.code, c.mode \cup {"EXC"}, excomp), ex)),
        recurs |-> IF at = 0 THEN st.recurs
                   ELSE SubSeq(st.recurs, 1, at - 1)
                        \o SubSeq(st.recurs, at + 1, Len(st.recurs))]

\* overrides_to_ical, lines 4307-4394: the body of the loop for override id.
override_to_ical(st, master, id, override) ==
    LET b == beginprop_key(st.c, "recurrenceOverrides", id)
        start == localdate_to_icaltime(id, b.tzstart, b.is_allday)
        date == [start EXCEPT !.zone = dtprop_zone(start, b.tzstart)]
        excluded == json_object_get(override, "excluded")
    IN IF ~localdate_to_icaltime_ok(id, b.tzstart, b.is_allday)
       THEN [st EXCEPT !.c = endprop(invalidprop(b, NullStr))]
       ELSE IF excluded # NULL
       THEN IF json_object_size(override) = 1 /\ excluded = JTrue
            THEN [st EXCEPT !.c =
                    endprop([b EXCEPT !.comp.exdate = Append(@, date)])]
            ELSE [st EXCEPT !.c = endprop(invalidprop(b, id))]
       ELSE IF json_object_size(override) = 0
       THEN [st EXCEPT !.c =
                endprop([b EXCEPT !.comp.rdate = Append(@, date)])]
       ELSE IF DOMAIN override.o \cap ForbiddenKeys # {}
       THEN \* continue, without endprop
            [st EXCEPT !.c = b]
       ELSE exception_to_ical([st EXCEPT !.c = b], master, id, override,
                              start)

RECURSIVE overrides_foreach(_, _, _, _)
overrides_foreach(st, master, overrides, ids) ==
    IF ids = <<>> THEN st
    ELSE Strict(LAMBDA w : overrides_foreach(w, master, overrides, Tail(ids)),
            override_to_ical(st, master, Head(ids), overrides.o[Head(ids)]))

\* The overrides written without the purge of RDATE and EXDATE.
overrides_keep_dates(c, overrides) ==
    LET c1 == [c EXCEPT !.excs = <<>>]
    IN IF json_is_null(overrides) THEN c1
       ELSE Strict(LAMBDA master :
                overrides_foreach([c |-> c1, recurs |-> c.excs], master,
                                  overrides, Keys(overrides)).c,
                json_object_del(
                    json_object_del(
                        calendarevent_from_ical(c1.comp, <<>>),
                        "recurrenceRule"),
                    "recurrenceOverrides"))

\* overrides_to_ical: RDATE and EXDATE are purged, the exceptions of the
\* container go to the cache, and what is left in the cache is freed.
overrides_to_ical(c, overrides) ==
    LET c1 == [c EXCEPT !.comp.rdate = <<>>, !.comp.exdate = <<>>,
                        !.excs = <<>>]
    IN IF json_is_null(overrides) THEN c1
       ELSE Strict(LAMBDA master :
                overrides_foreach([c |-> c1, recurs |-> c.excs], master,
                                  overrides, Keys(overrides)).c,
                json_object_del(
                    json_object_del(
                        calendarevent_from_ical(c1.comp, <<>>),
                        "recurrenceRule"),
                    "recurrenceOverrides"))

\* calendarevent_to_ical of the main VEVENT: the event is laid over the
\* current one on update (lines 4419-4425), and recurrenceOverrides is
\* written last (lines 4713-4725).
calendarevent_to_ical(c0, event0) ==
    Strict(LAMBDA event :
            Strict(LAMBDA v :
                    IF readprop_r(event, "recurrenceOverrides", FALSE, "o") > 0
                    THEN overrides_to_ical(v,
                            json_object_get(event, "recurrenceOverrides"))
                    ELSE v,
                   event_to_ical(c0, event, ~is_update(c0), FALSE)),
           IF is_update(c0)
           THEN json_object_update(
                    calendarevent_from_ical(c0.comp, c0.excs), event0)
           ELSE event0)

(***************************************************************************)
(* jmapical_toical and its callers.                                        *)
(***************************************************************************)

\* A VCALENDAR with its VEVENTs.
Container(comps) == [type |-> "VCALENDAR", comps |-> comps]

\* A jmapical_err_t.
Err(code, props) == [type |-> "jmapical_err_t", code |-> code, props |-> props]

\* The position of the first VEVENT without RECURRENCE-ID, 0 for none.
main_vevent(cal) ==
    LET at == {i \in 1..Len(cal.comps) : cal.comps[i].recurid = NullTime}
    IN IF at = {} THEN 0 ELSE CHOOSE i \in at : \A j \in at : i <= j

\* The document after the call: the overrides in ids were given the key
\* start by overrides_to_ical.  The overrides that an update reads from
\* the container are not the caller's.
injected_start(doc, ids) ==
    IF ids = {} \/ json_object_get(doc, "recurrenceOverrides") = NULL THEN doc
    ELSE LET ov == json_object_get(doc, "recurrenceOverrides") IN
         json_object_set(doc, "recurrenceOverrides",
            JObj([id \in DOMAIN ov.o |->
                    IF id \in ids
                    THEN json_object_set(ov.o[id], "start", JStr(id))
                    ELSE ov.o[id]]))

\* The uid of the document alone.
toical_uid_of_document(doc, comp, is_update_mode) ==
    json_string_value(json_object_get(doc, "uid"))

\* jmapical_toical, lines 4794-4797: the uid of the document, else that of
\* the main VEVENT of src.
toical_uid(doc, comp, is_update_mode) ==
    LET uid == json_string_value(json_object_get(doc, "uid"))
    IN IF uid = NullStr /\ is_update_mode THEN comp.uid ELSE uid

\* jmapical_toical, lines 4789-4823, once the component is there.
toical_convert(doc, comp, excs, e, is_update_mode) ==
    LET uid == toical_uid(doc, comp, is_update_mode)
        mode == IF is_update_mode THEN {"WRITE", "UPDATE"} ELSE {"WRITE"}
        ctx0 == [context_new(IF e # NULL THEN e.code ELSE "OK", mode, comp)
                    EXCEPT !.excs = excs, !.uid = uid]
        Result(c) ==
            LET props == have_invalid_props(c) /\ e # NULL
                code == IF props THEN "PROPS" ELSE c.code
            IN [ical |-> IF code # "OK" THEN NULL
                         ELSE Container(<<c.comp>> \o c.excs),
                err |-> IF e = NULL THEN e
                        ELSE IF props THEN Err("PROPS", get_invalid_props(c))
                        ELSE [e EXCEPT !.code = c.code],
                ctx |-> [c EXCEPT !.code = code],
                obj |-> injected_start(doc, c.injected)]
    IN IF uid = NullStr
       THEN [ical |-> NULL,
             err |-> IF e # NULL THEN [e EXCEPT !.code = "UID"] ELSE e,
             ctx |-> ctx0, obj |-> doc]
       ELSE Strict(Result, Strict2(calendarevent_to_ical, ctx0, doc))

\* jmapical_toical(obj, src, err): the container returned, the caller's
\* err and document after the call, and the context as context_free finds
\* it (NULL when the call leaves before context_new).
jmapical_toical(doc, source, e) ==
    IF source # NULL /\ main_vevent(source) = 0
    THEN [ical |-> source,
          err |-> IF e # NULL THEN [e EXCEPT !.code = "ICAL"] ELSE e,
          ctx |-> NULL, obj |-> doc]
    ELSE LET m == IF source # NULL THEN main_vevent(source) ELSE 0 IN
         toical_convert(doc,
            IF source # NULL THEN source.comps[m] ELSE NewVevent,
            IF source # NULL
            THEN SubSeq(source.comps, 1, m - 1)
                    \o SubSeq(source.comps, m + 1, Len(source.comps))
            ELSE <<>>,
            e, source # NULL)

\* How a call may end: it returns ("done") or the process is ended by an
\* assert or a signal ("aborted").  context_free(NULL) and a NULL id
\* handed to xjmapid_to_ical are undefined, so either is possible.
outcomes(res) ==
    LET is_ub == res.ctx = NULL \/ (res.ctx # NULL /\ res.ctx.ub)
        is_aborted == res.ctx # NULL /\ res.ctx.aborted
    IN IF is_aborted THEN {"aborted"}
       ELSE IF is_ub THEN {"done", "aborted"} ELSE {"done"}

(***************************************************************************)
(* The calls.  A document is the base document, a valid event, with at     *)
(* most MaxVaried of its keys changed to another value or removed.         *)
(***************************************************************************)

\* The number of keys of the base document that a document changes.
MaxVaried == 2

Object1(k1, v1) == JObj([k \in {k1} |-> v1])
Object2(k1, v1, k2, v2) == JObj([k \in {k1, k2} |-> IF k = k1 THEN v1 ELSE v2])
Object3(k1, v1, k2, v2, k3, v3) ==
    JObj([k \in {k1, k2, k3} |->
            IF k = k1 THEN v1 ELSE IF k = k2 THEN v2 ELSE v3])

BaseDoc ==
    JObj([k \in {"uid", "isAllDay", "start", "timeZone", "title"} |->
        CASE k = "uid" -> JStr("u1")
          [] k = "isAllDay" -> JFalse
          [] k = "start" -> JStr(Midnight)
          [] k = "timeZone" -> JNull
          [] OTHER -> JStr("t")])

EmailAction ==
    Object2("type", JStr("email"),
            "to", JArr(<<Object1("email", JStr("x@example.com"))>>))
Alert(action) ==
    Object3("offset", JStr("PT15M"), "relativeTo", JStr("before-start"),
            "action", action)

FieldOrder ==
    <<"uid", "isAllDay", "start", "timeZone", "title", "duration",
      "priority", "privacy", "status", "freeBusyStatus", "excluded", "links",
      "locations", "recurrenceRule", "alerts", "recurrenceOverrides">>

\* The other values of a key; NULL removes the key.
Alternatives(k) ==
    CASE k = "uid" -> {NULL, JInt(7)}
      [] k = "isAllDay" -> {JTrue, NULL}
      [] k = "start" -> {JStr(Morning), JStr("bogus"), NULL}
      [] k = "timeZone" ->
            {JStr("Europe/Berlin"), JStr("Bogus/Zone"), NULL}
      [] k = "title" -> {JInt(5), NULL}
      [] k = "duration" -> {JStr("PT1H"), JStr("P1D"), JStr("bogus")}
      [] k = "priority" -> {JInt(5), JInt(10), JInt(0 - 1), JStr("high")}
      [] k = "privacy" -> {JStr("private"), JStr("bogus")}
      [] k = "status" -> {JStr("tentative"), JStr("bogus")}
      [] k = "freeBusyStatus" -> {JStr("free"), JStr("bogus")}
      [] k = "excluded" -> {JTrue}
      [] k = "links" ->
            {Object1("l1", Object1("href", JStr("http://example.com/a"))),
             Object1("l1", Object1("title", JStr("no href"))),
             JNull}
      [] k = "locations" ->
            {Object1("e1", Object2("rel", JStr("end"),
                                   "timeZone", JStr("America/New_York"))),
             Object1("p1", Object1("name", JStr("room"))),
             JNull}
      [] k = "recurrenceRule" ->
            {Object2("frequency", JStr("daily"), "count", JInt(3)),
             Object2("frequency", JStr("daily"), "until", JStr(Override2)),
             Object3("frequency", JStr("daily"), "count", JInt(3),
                     "until", JStr(Override2)),
             Object2("frequency", JStr("daily"), "count", JInt(0)),
             Object1("frequency", JStr("bogus"))}
      [] k = "alerts" ->
            {Object1("a1", Alert(EmailAction)),
             Object1("a1", Alert(Object1("type", JStr("email")))),
             Object1("a1", Alert(Object1("type", JStr("display")))),
             Object1("a1", Alert(Object1("type", JStr("bogus"))))}
      [] OTHER ->
            {Object1(Override1, Object1("excluded", JTrue)),
             Object1(Override1, EmptyObject),
             Object1(Override1, Object1("title", JStr("x"))),
             Object1(Override1, Object2("title", JStr("x"),
                                        "uid", JStr("u2"))),
             Object1(Override1, Object2("title", JStr("x"),
                                        "excluded", JTrue)),
             Object2(Override1, Object2("title", JStr("x"),
                                        "uid", JStr("u2")),
                     Override2, Object1("title", JInt(5)))}

SetField(doc, k, v) ==
    IF v = NULL THEN json_object_del(doc, k) ELSE json_object_set(doc, k, v)

\* The documents that change at most n of the keys FieldOrder[i..] of doc.
RECURSIVE Vary(_, _, _)
Vary(doc, i, n) ==
    IF i > Len(FieldOrder) THEN {doc}
    ELSE Vary(doc, i + 1, n)
         \cup (IF n = 0 THEN {}
               ELSE UNION {Vary(SetField(doc, FieldOrder[i], v), i + 1, n - 1) :
                            v \in Alternatives(FieldOrder[i])})

Documents == Vary(BaseDoc, 1, MaxVaried)

\* A stored event: one VEVENT with a floating start of one hour.
SrcMaster ==
    [NewVevent EXCEPT !.uid = "u0", !.dtstart = [t |-> Midnight,
                                                 zone |-> NullStr,
                                                 is_date |-> FALSE],
                      !.duration = "PT1H", !.summary = "old",
                      !.priority = <<0>>, !.status = "CONFIRMED"]

\* A stored exception of an event whose master is in no component.
SrcOrphan ==
    [SrcMaster EXCEPT !.recurid = [t |-> Override1, zone |-> NullStr,
                                   is_date |-> FALSE],
                      !.dtstart = [t |-> Override1, zone |-> NullStr,
                                   is_date |-> FALSE]]

\* The containers a caller hands to jmapical_toical; NULL to create.
Sources == {NULL, Container(<<SrcMaster>>), Container(<<SrcOrphan>>)}

InitWrite ==
    /\ caller \in {"jmapical_toical", "jevent_string_as_icalcomponent"}
    /\ obj \in Documents
    /\ src \in IF caller = "jmapical_toical" THEN Sources ELSE {NULL}
    /\ err \in IF caller = "jmapical_toical"
               THEN {NULL, Err("OK", NULL)} ELSE {NULL}
    /\ ical = NULL
    /\ wctx = NULL
    /\ wpc = "call"
    /\ tojmap = NULL
    /\ wantprops = NULL
    /\ given = EmptyObject
    /\ calls = 0
    \* the other machines are idle
    /\ atts = <<>>
    /\ prop = 0
    /\ rsvp_prop = 0
    /\ depth = 0
    /\ rsvp = NullStr
    /\ iters = 0
    /\ participants = <<>>
    /\ rpc = "idle"
    /\ lprops = <<>>
    /\ lpos = 0
    /\ ret = EmptyObject
    /\ assigned = <<>>
    /\ lpropstr = <<>>
    /\ lpc = "idle"

\* The effect of a call of jmapical_toical with src and err.
ToicalCall(source, e) ==
    \E res \in {jmapical_toical(obj, source, e)} :
        /\ \E pc \in outcomes(res) :
            /\ wpc' = pc
            /\ ical' = IF pc = "done" THEN res.ical ELSE NULL
            /\ given' = IF /\ pc = "done"
                           /\ source # NULL
                           /\ res.ical # NULL
                           /\ res.ical # source
                        THEN json_object_update(given, obj) ELSE given
        /\ err' = res.err
        /\ wctx' = res.ctx
        /\ obj' = res.obj
        /\ calls' = calls + 1

\* A caller calls jmapical_toical(obj, src, err).
JmapicalToical ==
    /\ UNCHANGED <<rsvpVars, linkVars>>
    /\ wpc = "call"
    /\ caller = "jmapical_toical"
    /\ ToicalCall(src, err)
    /\ UNCHANGED <<caller, src, tojmap, wantprops>>

\* A caller calls jevent_string_as_icalcomponent(buf), where buf holds the
\* text of obj: jmapical_toical(obj, NULL, NULL).
JeventStringAsIcalcomponent ==
    /\ UNCHANGED <<rsvpVars, linkVars>>
    /\ wpc = "call"
    /\ caller = "jevent_string_as_icalcomponent"
    /\ ToicalCall(NULL, NULL)
    /\ UNCHANGED <<caller, src, tojmap, wantprops>>

NextWrite == JmapicalToical \/ JeventStringAsIcalcomponent

(***************************************************************************)
(* Properties of the calls.                                                *)
(***************************************************************************)

\* The call returned (it did not end in the assertion).
Returned == wpc = "done"

\* The override patches of the document, by recurrence id.
Overrides ==
    LET o == json_object_get(obj, "recurrenceOverrides")
    IN IF o # NULL /\ o.type = "object" THEN o.o ELSE [k \in {} |-> NULL]

\* Patch id names a forbidden key and changes the title.
ForbiddenWithTitle(id) ==
    LET ov == Overrides[id] IN
    /\ ov.type = "object"
    /\ DOMAIN ov.o \cap ForbiddenKeys # {}
    /\ DOMAIN ov.o \ (ForbiddenKeys \cup {"title"}) = {}
    /\ json_is_string(json_object_get(ov, "title"))

\* The container holds an exception for recurrence id id with this summary.
HasException(id, title) ==
    \E i \in 1..Len(ical.comps) :
        /\ ical.comps[i].recurid # NullTime
        /\ ical.comps[i].recurid.t = id
        /\ ical.comps[i].summary = title

\* An invalid property was recorded at or below patch id.
InvalidUnder(id) ==
    \E p \in wctx.invalid :
        Len(p) >= 2 /\ p[1] = "recurrenceOverrides" /\ p[2] = id

\* C3: when a call returns for a document one of whose override patches
\* names a forbidden key next to a title, no invalid property is recorded
\* for the patch, and the container of a call that recorded none holds an
\* exception component for that recurrence id with the new title.
C3_ForbiddenKeyIgnored ==
    (Returned /\ wctx # NULL) =>
        \A id \in DOMAIN Overrides :
            ForbiddenWithTitle(id) =>
                /\ ~InvalidUnder(id)
                /\ (ical # NULL /\ ~have_invalid_props(wctx)) =>
                      HasException(id, json_string_value(
                                        json_object_get(Overrides[id], "title")))

\* C4: when a call returns with invalid properties recorded, it returns no
\* container, and the error of a caller that passed one holds the code of a
\* property error and the pointer list; so for either caller.
C4_InvalidPropsNoIcal ==
    (Returned /\ wctx # NULL /\ have_invalid_props(wctx)) =>
        /\ ical = NULL
        /\ err # NULL => (err.code = "PROPS" /\ err.props = JArr(wctx.invalid))

\* The members of object key of the document, none when it is no object.
Members(key) ==
    LET o == json_object_get(obj, key)
    IN IF o # NULL /\ o.type = "object" THEN o.o ELSE [k \in {} |-> NULL]

\* The pointers of the structural errors of the document that the examples
\* of the claim name: a privacy or title of the wrong kind, an email alert
\* action without to, a link without href.
StructuralErrors ==
    LET privacy == json_object_get(obj, "privacy")
        title == json_object_get(obj, "title")
    IN {<<"privacy">> : x \in
            {1 : y \in {1} \cap
                (IF privacy # NULL
                    /\ json_string_value(privacy)
                          \notin {"public", "private", "secret"}
                 THEN {1} ELSE {})}}
       \cup {<<"title">> : x \in
            {1 : y \in {1} \cap
                (IF title # NULL /\ ~json_is_string(title) THEN {1} ELSE {})}}
       \cup {<<"alerts", id, "action", "to">> : id \in
                {a \in DOMAIN Members("alerts") :
                    LET action == json_object_get(Members("alerts")[a], "action")
                    IN /\ action # NULL
                       /\ json_string_value(json_object_get(action, "type"))
                             = "email"
                       /\ json_object_get(action, "to") = NULL}}
       \cup {<<"links", id, "href">> : id \in
                {l \in DOMAIN Members("links") :
                    json_object_get(Members("links")[l], "href") = NULL}}

\* C5: the pointer list that a call returns holds a pointer for each
\* structural error of the document.
C5_AllErrorsReported ==
    (Returned /\ err # NULL /\ err.code = "PROPS") =>
        StructuralErrors \subseteq err.props.a

\* The document is an all-day event.
DocAllDay == json_object_get(obj, "isAllDay") = JTrue

\* The document names a time zone of the start.
DocHasTimeZone ==
    LET tz == json_object_get(obj, "timeZone")
    IN tz # NULL /\ ~json_is_null(tz)

\* The document has a location with rel end and a time zone.
DocHasEndTimeZone ==
    \E id \in DOMAIN Members("locations") :
        LET loc == Members("locations")[id] IN
        /\ loc.type = "object"
        /\ json_string_value(json_object_get(loc, "rel")) = "end"
        /\ json_object_get(loc, "timeZone") # NULL
        /\ ~json_is_null(json_object_get(loc, "timeZone"))

\* The main VEVENT of the container returned.
Master == ical.comps[main_vevent(ical)]

\* C6: a call with an error sink that returns for an all-day document with
\* a time zone of the start or of the end records an invalid property and
\* returns no container; the DTSTART of the container it returns for an
\* all-day document is a DATE without TZID.
C6_AllDayFloating ==
    (Returned /\ wctx # NULL /\ err # NULL /\ err.code \in {"OK", "PROPS"}
        /\ DocAllDay) =>
        /\ (DocHasTimeZone \/ DocHasEndTimeZone) =>
                (have_invalid_props(wctx) /\ ical = NULL)
        /\ ical # NULL =>
                (Master.dtstart.is_date /\ Master.dtstart.zone = NullStr)

\* The recurrence rule of the document, and its terminators.
Rule == json_object_get(obj, "recurrenceRule")
RuleCount == json_object_get(Rule, "count")
RuleUntil == json_object_get(Rule, "until")

\* The call translated the document, with a rule in it.
RuleTranslated ==
    /\ Returned
    /\ wctx # NULL
    /\ wctx.uid # NullStr
    /\ Rule # NULL
    /\ Rule.type = "object"

CountPointer == <<"recurrenceRule", "count">>
UntilPointer == <<"recurrenceRule", "until">>

\* C7: a call that translates a rule with count and until records both
\* pointers and the component has no RRULE; for a rule with only a positive
\* count, or only an until that is a local date of the start zone, it
\* records neither.
C7_CountXorUntil ==
    RuleTranslated =>
        /\ (RuleCount # NULL /\ RuleUntil # NULL) =>
                /\ {CountPointer, UntilPointer} \subseteq wctx.invalid
                /\ wctx.comp.rrule = <<>>
                /\ ical # NULL => Master.rrule = <<>>
        /\ (\/ /\ RuleUntil = NULL
               /\ RuleCount # NULL
               /\ RuleCount.type = "integer"
               /\ RuleCount.i > 0
            \/ /\ RuleCount = NULL
               /\ RuleUntil # NULL
               /\ json_is_string(RuleUntil)
               /\ localdate_to_icaltime_ok(RuleUntil.s, wctx.tzstart,
                                           wctx.is_allday)) =>
                {CountPointer, UntilPointer} \cap wctx.invalid = {}

\* A call translated a rule with count and until and recorded both.
C7_Witness ==
    /\ RuleTranslated
    /\ RuleCount # NULL
    /\ RuleUntil # NULL
    /\ {CountPointer, UntilPointer} \subseteq wctx.invalid

\* The document has no uid that is a string.
DocWithoutUid == ~json_is_string(json_object_get(obj, "uid"))

\* The call is one to create an event, or to update one that has a main
\* VEVENT.
IsCreate == src = NULL
IsUpdate == src # NULL /\ main_vevent(src) # 0

\* C8: a call to create an event from a document without a uid string
\* returns no container, and the error of a caller that passed one holds
\* the code of a missing uid and no pointer list; a call to update an event
\* from such a document does not end with that code, and the main VEVENT of
\* the container it returns has the uid it had.
C8_MissingUid ==
    (Returned /\ DocWithoutUid) =>
        /\ IsCreate =>
                /\ ical = NULL
                /\ err # NULL => (err.code = "UID" /\ err.props = NULL)
        /\ IsUpdate =>
                /\ err # NULL => err.code # "UID"
                /\ wctx.uid = src.comps[main_vevent(src)].uid
                /\ ical # NULL =>
                        Master.uid = src.comps[main_vevent(src)].uid

\* A call to update an event from a document without uid returned a
\* container.
C8_Witness ==
    /\ Returned
    /\ DocWithoutUid
    /\ IsUpdate
    /\ ical # NULL
    /\ Master.uid = "u0"

\* The call built the RRULE string of the rule and the parser rejected it:
\* no property of the event or of the rule was invalid, and the frequency
\* is none that the parser knows.
ParserRejected ==
    /\ RuleTranslated
    /\ json_is_string(json_object_get(Rule, "frequency"))
    /\ json_object_get(Rule, "frequency").s \notin Frequencies
    /\ wctx.invalid = {<<"recurrenceRule">>}

\* C9: a call whose RRULE string the parser rejects returns no container,
\* and the error of a caller that passed one holds the code of an ICAL
\* error or of an unknown error, and no pointer list.
C9_ParseFailureFatal ==
    ParserRejected =>
        /\ ical = NULL
        /\ err # NULL => (err.code \in {"ICAL", "UNKNOWN"} /\ err.props = NULL)

(***************************************************************************)
(* The round trip: jmapical_toical, jmapical_tojmap of the container it    *)
(* returned, and the next update of that container.                        *)
(***************************************************************************)

\* The number of calls of jmapical_toical in a row.
MaxCalls == 2

\* jmapical_tojmap(ical, NULL, err), lines 2508-2539: the main VEVENT is
\* the first one without RECURRENCE-ID, else the first one.
jmapical_tojmap(cal) ==
    IF Len(cal.comps) = 0 THEN NULL
    ELSE Strict(LAMBDA m :
            calendarevent_from_ical(cal.comps[m],
                SubSeq(cal.comps, 1, m - 1)
                    \o SubSeq(cal.comps, m + 1, Len(cal.comps))),
            IF main_vevent(cal) = 0 THEN 1 ELSE main_vevent(cal))

\* wantprop, lines 181-187
wantprop(wanted, name) ==
    wanted = NULL \/ json_object_get(wanted, name) # NULL

\* The keys of event that are in keep.
json_object_keep(event, keep) ==
    JObj([k \in DOMAIN event.o \cap keep |-> event.o[k]])

\* calendarevent_from_ical of the main VEVENT for a caller that wants the
\* properties in wanted.  With recurrenceOverrides wanted the context has
\* no wanted properties during the conversion and the keys of wanted are
\* copied from the event at the end (lines 2221-2227, 2490-2503); without,
\* each property asks wantprop, except @type and uid (lines 2229, 2246-2250).
wanted_from_ical(comp, excs, wanted) ==
    IF wanted = NULL THEN calendarevent_from_ical(comp, excs)
    ELSE IF wantprop(wanted, "recurrenceOverrides")
    THEN json_object_keep(calendarevent_from_ical(comp, excs),
                          DOMAIN wanted.o)
    ELSE json_object_keep(event_from_ical(comp, FALSE),
                          {"@type", "uid"} \cup DOMAIN wanted.o)

\* jmapical_tojmap(ical, props, err)
jmapical_tojmap_props(cal, wanted) ==
    IF Len(cal.comps) = 0 THEN NULL
    ELSE Strict(LAMBDA m :
            wanted_from_ical(cal.comps[m],
                SubSeq(cal.comps, 1, m - 1)
                    \o SubSeq(cal.comps, m + 1, Len(cal.comps)),
                wanted),
            IF main_vevent(cal) = 0 THEN 1 ELSE main_vevent(cal))

\* A valid event of one hour.
RoundBase == json_object_set(BaseDoc, "duration", JStr("PT1H"))

RoundAlert(offset, relativeTo) ==
    Object1("a1", Object3("offset", JStr(offset),
                          "relativeTo", JStr(relativeTo),
                          "action", Object1("type", JStr("display"))))

\* An alert that was snoozed until the morning: the action with the keys
\* in keys, a key in bad without the Z of a UTC date.
RoundSnoozed(type, keys, bad) ==
    Object1("a1", Object3("offset", JStr("PT15M"),
                          "relativeTo", JStr("before-start"),
                          "action", JObj([k \in {"type", "to"} \cup keys |->
        CASE k = "type" -> JStr(type)
          [] k = "to" -> IF type = "email"
                         THEN JArr(<<Object1("email", JStr("x@example.com"))>>)
                         ELSE JNull
          [] k = "snoozed" -> JStr(Morning \o (IF k \in bad THEN "" ELSE "Z"))
          [] OTHER -> JStr(Midnight \o (IF k \in bad THEN "" ELSE "Z"))])))

\* The locations of the round trip: two rooms, and a virtual location.
RoundLocation(id) ==
    CASE id = "p1" -> Object1("name", JStr("room"))
      [] id = "p2" -> Object2("name", JStr("hall"), "rel", JStr("start"))
      [] OTHER -> Object3("name", JStr("call"), "rel", JStr("virtual"),
                          "uri", JStr("https://example.com/call"))

\* The location that names the time zone of the end.
EndZone(tzid) == Object2("rel", JStr("end"), "timeZone", JStr(tzid))

\* A rule of the round trip: the by-keys in keys with the values in values.
RoundRule(frequency, keys, values) ==
    JObj([k \in {"frequency"} \cup keys |->
            IF k = "frequency" THEN JStr(frequency)
            ELSE JArr([i \in 1..Len(values) |-> JInt(values[i])])])

\* The values that a document of the round trip gives to a key.
RoundAlternatives(k) ==
    CASE k = "title" -> {JStr("x"), JStr("")}
      [] k = "description" -> {JStr("d"), JStr("")}
      [] k = "color" -> {JStr("red"), JStr("blue")}
      [] k = "privacy" -> {JStr("public"), JStr("private"), JStr("secret")}
      [] k = "freeBusyStatus" -> {JStr("free"), JStr("busy")}
      [] k = "status" ->
            {JStr("confirmed"), JStr("tentative"), JStr("cancelled")}
      [] k = "priority" -> {JInt(0), JInt(5), JInt(9)}
      [] k = "sequence" -> {JInt(0), JInt(3)}
      [] k = "timeZone" -> {JStr("Europe/Berlin")}
      [] k = "start" -> {JStr(Morning)}
      [] k = "duration" -> {JStr("PT15M"), JStr("P1D"), JStr("P0D")}
      [] k = "alerts" ->
            {RoundAlert(o, r) :
                o \in {"PT15M", "-PT15M", "PT0S"},
                r \in {"before-start", "after-start", "before-end",
                       "after-end"}}
            \cup {RoundSnoozed("display", {"snoozed"}, {}),
                  RoundSnoozed("display", {"acknowledged"}, {}),
                  RoundSnoozed("email", {"snoozed", "acknowledged"}, {}),
                  RoundSnoozed("display", {"snoozed"}, {"snoozed"}),
                  RoundSnoozed("display", {"snoozed", "acknowledged"},
                               {"acknowledged"})}
      [] k = "locations" ->
            {JObj([id \in ids |-> RoundLocation(id)]) :
                ids \in {{"p1"}, {"v1"}, {"p1", "p2"}, {"p1", "v1"},
                         {"p1", "p2", "v1"}}}
      [] k = "recurrenceOverrides" ->
            {Object1(Override1, Object1("excluded", JTrue)),
             Object1(Override1, EmptyObject),
             Object1(Override1, Object1("title", JStr("x"))),
             Object2(Override1, Object1("excluded", JTrue),
                     Override2, Object1("title", JStr("x"))),
             Object2(Override1, EmptyObject,
                     Override2, Object1("excluded", JTrue))}
      [] k = "recurrenceRule" ->
            {RoundRule("monthly", {"bySetPosition"}, <<0 - 1>>),
             RoundRule("monthly", {"bySetPosition"}, <<1, 59>>),
             RoundRule("daily", {"byHour", "byMinute", "bySecond"}, <<0>>),
             RoundRule("daily", {"byHour"}, <<23>>),
             RoundRule("daily", {"byHour"}, <<24>>),
             RoundRule("daily", {"byMinute", "bySecond"}, <<59>>),
             RoundRule("daily", {"bySecond"}, <<60>>),
             RoundRule("yearly", {"byDate", "byWeekNo"}, <<0 - 31, 31>>),
             RoundRule("yearly", {"byDate"}, <<0>>),
             RoundRule("yearly", {"byWeekNo", "byYearDay"}, <<0 - 53, 53>>),
             RoundRule("yearly", {"byWeekNo"}, <<54>>),
             RoundRule("yearly", {"byYearDay"}, <<0 - 366, 366>>),
             RoundRule("yearly", {"byYearDay"}, <<367>>)}
      [] OTHER -> {}

RoundKeys ==
    {"title", "description", "color", "privacy", "freeBusyStatus", "status",
     "priority", "sequence", "timeZone", "start", "duration", "alerts",
     "locations", "recurrenceOverrides", "recurrenceRule"}

\* The events in a time zone that name the time zone of their end, with and
\* without a room.
RoundZoned ==
    {json_object_set(json_object_set(RoundBase, "timeZone",
                                     JStr("Europe/Berlin")),
                     "locations", JObj([id \in ids |->
                        IF id = "e1" THEN EndZone(tzid)
                        ELSE RoundLocation(id)])) :
        ids \in {{"e1"}, {"e1", "p1"}},
        tzid \in {"America/New_York", "Europe/Berlin"}}

\* The documents of the first call: the base event with one key set, and the
\* events with a time zone of the end.
RoundDocs ==
    {RoundBase}
    \cup UNION {{json_object_set(RoundBase, k, v) : v \in RoundAlternatives(k)} :
                k \in RoundKeys}
    \cup RoundZoned

\* The keys an update sets.
UpdateKeys ==
    {"title", "priority", "color", "status", "privacy", "freeBusyStatus"}

\* The documents of an update: no key, or one of UpdateKeys.
Updates ==
    {EmptyObject}
    \cup UNION {{Object1(k, v) : v \in RoundAlternatives(k)} : k \in UpdateKeys}
    \cup {Object1("locations", v) :
            v \in {JNull, Object1("p1", RoundLocation("p1")),
                   Object1("v1", RoundLocation("v1"))}}
    \cup {Object1("recurrenceOverrides", v) :
            v \in {JNull, Object1(Override2, Object1("title", JStr("y"))),
                   Object1(Override2, EmptyObject)}}

\* A stored event on the last day of every month: RRULE with
\* FREQ=MONTHLY;BYMONTHDAY=28,29,30,31;BYSETPOS=-1.
SrcRule ==
    [SrcMaster EXCEPT !.rrule =
        <<[freq |-> "monthly", count |-> 0, until |-> NoUntil,
           by |-> [tag \in {"BYMONTHDAY", "BYSETPOS"} |->
                    IF tag = "BYSETPOS" THEN <<0 - 1>>
                    ELSE <<28, 29, 30, 31>>]]>>]

\* A stored VALARM of 15 minutes before the start, with ACKNOWLEDGED at
\* midnight when acked.
SrcAlarm(uid, action, acked) ==
    [uid |-> uid, action |-> action,
     att |-> IF action = "email" THEN <<"x@example.com">> ELSE <<>>,
     offset |-> "PT15M", is_neg |-> TRUE, related |-> "START",
     time |-> NullTime, relatedto |-> NullStr,
     acknowledged |-> IF acked
                      THEN [t |-> Midnight, zone |-> utc, is_date |-> FALSE]
                      ELSE NullTime]

\* The stored VALARM with RELATED-TO;RELTYPE=SNOOZE of the alarm uid, its
\* TRIGGER the UTC time t.
SrcSnooze(uid, action, t) ==
    [SrcAlarm("s1", action, FALSE) EXCEPT
        !.offset = "PT0S", !.is_neg = FALSE, !.relatedto = uid,
        !.time = [t |-> t, zone |-> utc, is_date |-> FALSE]]

\* The stored events with a snoozed alarm: the snooze alarm after and
\* before the alarm it names, and next to an alarm that was not snoozed.
SrcSnoozed ==
    {[SrcMaster EXCEPT !.alarms = al] :
        al \in {<<SrcAlarm("a1", "email", TRUE),
                  SrcSnooze("a1", "email", Morning)>>,
                <<SrcSnooze("a1", "display", Morning),
                  SrcAlarm("a1", "display", FALSE)>>,
                <<SrcAlarm("a2", "display", TRUE),
                  SrcAlarm("a1", "display", TRUE),
                  SrcSnooze("a1", "display", Shifted)>>}}

\* The first call: a document to create or to lay over the stored event,
\* or the stored rule or the stored alarms written back as they are.
FirstCalls ==
    (RoundDocs \X {NULL, Container(<<SrcMaster>>)})
    \cup ({EmptyObject} \X {Container(<<SrcRule>>)})
    \cup ({EmptyObject} \X {Container(<<m>>) : m \in SrcSnoozed})

InitRound ==
    /\ caller = "jmapical_toical"
    /\ \E first \in FirstCalls : obj = first[1] /\ src = first[2]
    /\ err = Err("OK", NULL)
    /\ ical = NULL
    /\ wctx = NULL
    /\ wpc = "call"
    /\ tojmap = NULL
    /\ wantprops = NULL
    /\ given = EmptyObject
    /\ calls = 0
    \* the other machines are idle
    /\ atts = <<>>
    /\ prop = 0
    /\ rsvp_prop = 0
    /\ depth = 0
    /\ rsvp = NullStr
    /\ iters = 0
    /\ participants = <<>>
    /\ rpc = "idle"
    /\ lprops = <<>>
    /\ lpos = 0
    /\ ret = EmptyObject
    /\ assigned = <<>>
    /\ lpropstr = <<>>
    /\ lpc = "idle"

\* A caller calls jmapical_tojmap(ical, props, err) with the container that
\* jmapical_toical returned, or with a stored one.
JmapicalTojmap ==
    /\ UNCHANGED <<rsvpVars, linkVars>>
    /\ wpc = "done"
    /\ ical # NULL
    /\ tojmap' = jmapical_tojmap_props(ical, wantprops)
    /\ wpc' = "read"
    /\ UNCHANGED <<caller, obj, src, err, ical, wctx, wantprops, given, calls>>

\* The caller goes on to update the container with another document.
NextUpdate ==
    /\ UNCHANGED <<rsvpVars, linkVars>>
    /\ wpc = "read"
    /\ calls > 0
    /\ calls < MaxCalls
    /\ obj' \in Updates
    /\ src' = ical
    /\ err' = Err("OK", NULL)
    /\ ical' = NULL
    /\ wctx' = NULL
    /\ tojmap' = NULL
    /\ wpc' = "call"
    /\ UNCHANGED <<caller, wantprops, given, calls>>

NextRound == JmapicalToical \/ JmapicalTojmap \/ NextUpdate

\* The fields of the claim that the model has.
ShellKeys ==
    {"uid", "title", "description", "color", "privacy", "freeBusyStatus",
     "status", "priority", "sequence", "start", "duration", "isAllDay",
     "timeZone"}

\* Two values of key k are the same, durations by their length.
SameValue(k, a, b) ==
    IF k = "duration" /\ a # NULL /\ b # NULL
        /\ json_is_string(a) /\ json_is_string(b)
    THEN dur_as_int(a.s) = dur_as_int(b.s)
    ELSE a = b

\* C14: the document read from the container that to_component made of
\* document E alone has, for each of uid, title, description, color,
\* privacy, freeBusyStatus, status, priority, sequence, start, duration,
\* isAllDay and timeZone that E has, the value that E has.
C14_RoundTrip ==
    (wpc = "read" /\ calls = 1 /\ src = NULL /\ tojmap # NULL) =>
        \A k \in ShellKeys \cap DOMAIN obj.o :
            SameValue(k, json_object_get(tojmap, k), obj.o[k])

\* C16: after any sequence of calls that update a container, the document
\* read from the result has for title, priority, color, status, privacy
\* and freeBusyStatus the value of the latest of the calls that gave the
\* field.
C16_LatestValueWins ==
    (wpc = "read" /\ tojmap # NULL) =>
        \A k \in UpdateKeys \cap DOMAIN given.o :
            json_object_get(tojmap, k) = given.o[k]

\* The document that the last call wrote: the one it was given, over the
\* one read from the container it was given.
Effective ==
    IF src = NULL THEN obj ELSE json_object_update(jmapical_tojmap(src), obj)

\* The keys of the overrides of document e that satisfy Test.
OverrideIds(e, Test(_)) ==
    LET ov == json_object_get(e, "recurrenceOverrides")
    IN IF ov = NULL \/ ov.type # "object" THEN {}
       ELSE {id \in DOMAIN ov.o : Test(ov.o[id])}

\* The dates of a sequence of EXDATE or RDATE properties, and a sequence
\* that has each date once.
DatesOf(dts) == {dts[i].t : i \in 1..Len(dts)}
Once(dts) == Cardinality(DatesOf(dts)) = Len(dts)

\* The recurrence ids of the exception components of the container.
ExceptionIds ==
    {localdate_from_icaltime_r(ical.comps[i].recurid) :
        i \in {j \in 1..Len(ical.comps) : ical.comps[j].recurid # NullTime}}

C23_PathStackEmpty ==
    (wpc = "done" /\ wctx # NULL) => wctx.propstr = <<>>

\* The properties of an event that a pointer can begin with.
EventFields ==
    {"@type", "uid", "isAllDay", "start", "timeZone", "duration", "title",
     "description", "color", "priority", "sequence", "privacy", "status",
     "freeBusyStatus", "excluded", "links", "locations", "recurrenceRule",
     "recurrenceOverrides", "alerts", "participants", "replyTo",
     "relatedTo", "prodId"}

\* Pointer p names a field of the document: a property of the event, an
\* override of the document, or a property inside the event of a patch.
PointerNamesField(p) ==
    /\ p # <<>>
    /\ p[1] \in EventFields
    /\ (p[1] = "recurrenceOverrides" /\ Len(p) >= 2) =>
            /\ p[2] \in DOMAIN Overrides
            /\ Len(p) >= 3 => p[3] \in EventFields \ ForbiddenKeys

\* C26: when a call returns, every pointer it recorded as invalid names
\* the field at fault, and an override that has excluded next to other
\* keys is recorded under recurrenceOverrides/<id>.
C26_PointersNameFields ==
    (wpc = "done" /\ wctx # NULL) =>
        /\ \A p \in wctx.invalid : PointerNamesField(p)
        /\ \A id \in DOMAIN Overrides :
                (/\ Overrides[id].type = "object"
                 /\ "excluded" \in DOMAIN Overrides[id].o
                 /\ json_object_size(Overrides[id]) > 1
                 /\ localdate_to_icaltime_ok(id, wctx.tzstart, wctx.is_allday))
                    => <<"recurrenceOverrides", id>> \in wctx.invalid

\* The values that a by-key of a recurrence rule may have.
ByRange(k) ==
    CASE k = "byDate" -> ((0 - 31)..31) \ {0}
      [] k = "byYearDay" -> ((0 - 366)..366) \ {0}
      [] k = "byWeekNo" -> ((0 - 53)..53) \ {0}
      [] k = "byHour" -> 0..23
      [] k = "byMinute" -> 0..59
      [] k = "bySecond" -> 0..59
      [] OTHER -> Int

\* The by-keys of recurrence rule r that have a value out of range.
OutOfRange(r) ==
    {k \in DOMAIN r.o \ {"frequency"} :
        \E i \in 1..json_array_size(r.o[k]) : r.o[k].a[i].i \notin ByRange(k)}

\* The document written has a rule of a frequency and by-keys only.
RuleOfByKeys ==
    /\ json_object_get(Effective, "recurrenceRule") # NULL
    /\ json_object_get(Effective, "recurrenceRule").type = "object"
    /\ DOMAIN json_object_get(Effective, "recurrenceRule").o
        \subseteq {"frequency"} \cup {ByParts[n].key : n \in 1..Len(ByParts)}

\* C25: a call for a recurrence rule of a frequency and by-keys records
\* an invalid property under recurrenceRule exactly when a byDate is not
\* in -31..31 or is 0, a byYearDay not in -366..366 or 0, a byWeekNo not
\* in -53..53 or 0, a byHour not in 0..23, a byMinute or bySecond not in
\* 0..59; every integer is taken as bySetPosition.
C25_ByRanges ==
    (wpc = "done" /\ wctx # NULL /\ RuleOfByKeys) =>
        ((\E p \in wctx.invalid : p[1] = "recurrenceRule")
            <=> OutOfRange(json_object_get(Effective, "recurrenceRule")) # {})

\* C27: a call with a container in which every VEVENT has a
\* RECURRENCE-ID comes back, returns no container and sets the code for
\* an error of the iCalendar library.
C27_NoMainEvent ==
    (wpc # "call" /\ src # NULL /\ main_vevent(src) = 0) =>
        /\ wpc = "done"
        /\ ical = NULL
        /\ err # NULL => err.code = "ICAL"

\* The ids of the locations of document e that name the time zone of the
\* end, in the order of the object.
EndZoneIds(e) ==
    SelectSeq(Keys(json_object_get(e, "locations")),
              LAMBDA id : location_is_endtimezone(
                            json_object_get(e, "locations").o[id]))

\* C21: after every call that returns a container, the main VEVENT has a
\* DTSTART and either a DTEND or a DURATION: a DTEND, with the TZID of the
\* end zone and the id of its location, exactly when the document has a
\* location with rel end whose time zone is not the one of the start, and
\* a DURATION in every other case.
C21_EndOrDuration ==
    (wpc \in {"done", "read"} /\ ical # NULL) =>
        /\ Master.dtstart # NullTime
        /\ (Master.dtend # NullEnd) # (Master.duration # NullStr)
        /\ Master.dtend # NullEnd <=>
                /\ EndZoneIds(Effective) # <<>>
                /\ json_object_get(Effective, "locations")
                        .o[EndZoneIds(Effective)[1]].o["timeZone"]
                    # json_object_get(Effective, "timeZone")
        /\ Master.dtend # NullEnd =>
                /\ EndZoneIds(Effective) # <<>>
                /\ Master.dtend.id = EndZoneIds(Effective)[1]
                /\ JStr(Master.dtend.zone)
                    = json_object_get(Effective, "locations")
                        .o[EndZoneIds(Effective)[1]].o["timeZone"]

\* C28: the document read after an update that gave locations null has
\* locations null, and no call leaves the main VEVENT with more
\* properties that hold a location than the document has locations.
C28_LocationsCleared ==
    /\ (wpc = "read" /\ src # NULL /\ json_object_get(obj, "locations") = JNull)
            => json_object_get(tojmap, "locations") = JNull
    /\ (wpc \in {"done", "read"} /\ ical # NULL)
            => Len(Master.location)
                   <= json_object_size(json_object_get(Effective, "locations"))

\* The ids of the locations of document e that are places, in the order
\* of the object.
PlaceIds(e) ==
    SelectSeq(Keys(json_object_get(e, "locations")),
              LAMBDA id : ~location_is_endtimezone(
                            json_object_get(e, "locations").o[id]))

\* The property kind that the location at position i of the places of
\* document e is to have.
PlaceKind(e, i) ==
    IF i = 1 THEN "LOCATION"
    ELSE IF /\ json_object_get(json_object_get(e, "locations").o[PlaceIds(e)[i]],
                               "rel") = JStr("virtual")
            /\ json_is_string(json_object_get(
                   json_object_get(e, "locations").o[PlaceIds(e)[i]], "uri"))
         THEN "CONFERENCE"
    ELSE "X-JMAP-LOCATION"

\* C30: every container that a call returns has one property for each
\* location of the document that is a place, in their order and with
\* their ids: LOCATION for the first, CONFERENCE for a later one with rel
\* virtual and a uri, X-JMAP-LOCATION for the others, none for the
\* locations that name the zone of the end; the document read back has
\* the same place ids.
C30_LocationKinds ==
    /\ (wpc \in {"done", "read"} /\ ical # NULL) =>
          /\ Len(Master.location) = Len(PlaceIds(Effective))
          /\ \A i \in 1..Len(Master.location) :
                /\ i <= Len(PlaceIds(Effective))
                /\ Master.location[i].id = PlaceIds(Effective)[i]
                /\ Master.location[i].kind = PlaceKind(Effective, i)
    /\ (wpc = "read" /\ tojmap # NULL) =>
          {PlaceIds(tojmap)[i] : i \in 1..Len(PlaceIds(tojmap))}
            = {PlaceIds(Effective)[i] : i \in 1..Len(PlaceIds(Effective))}

\* ---------------------------------------------------------------------
\* Reading stored containers.
\* ---------------------------------------------------------------------

StoredTime(t, zone) == [t |-> t, zone |-> zone, is_date |-> FALSE]

\* The ATTENDEEs of stored events: mailto: URIs in either case, URIs of
\* other schemes, and one of those with an X-JMAP-ID parameter.
StoredAttendee(uri, id, cn, partstat) ==
    [uri |-> uri, id |-> id, cn |-> cn, partstat |-> partstat,
     delegatedto |-> NoParam]
AttA == StoredAttendee("mailto:a", NullStr, "Ann", "ACCEPTED")
AttB == StoredAttendee("mailto:b", "p2", NullStr, "NONE")
AttC == StoredAttendee("MAILTO:c", NullStr, NullStr, "DECLINED")
AttUrn == StoredAttendee("urn:uuid:d", NullStr, "Dan", "ACCEPTED")
AttHttp == StoredAttendee("http://x.org/e", "p5", NullStr, "TENTATIVE")
StoredAttendees ==
    {<<>>, <<AttA>>, <<AttUrn>>, <<AttHttp>>, <<AttA, AttUrn>>,
     <<AttUrn, AttB>>, <<AttHttp, AttC, AttA>>, <<AttUrn, AttHttp>>}

\* A VALARM with an absolute TRIGGER, which is a UTC time.
StoredAlarm(t, related) ==
    [uid |-> "a1", action |-> "display", att |-> <<>>, offset |-> "PT0S",
     is_neg |-> FALSE, related |-> related, time |-> StoredTime(t, utc),
     relatedto |-> NullStr, acknowledged |-> NullTime]

\* A VALARM with a TRIGGER of 15 minutes before the start.
RelativeAlarm ==
    [uid |-> "a2", action |-> "display", att |-> <<>>, offset |-> "PT15M",
     is_neg |-> TRUE, related |-> "START", time |-> NullTime,
     relatedto |-> NullStr, acknowledged |-> NullTime]

\* A stored weekly event.
StoredMaster(start, zone) ==
    [SrcMaster EXCEPT !.dtstart = StoredTime(start, zone),
                      !.rrule = <<[freq |-> "weekly", count |-> 4,
                                   until |-> NoUntil, by |-> NoBy]>>,
                      !.created = "2019-12-01T00:00:00Z",
                      !.dtstamp = "2019-12-02T00:00:00Z"]

\* The events with attendees and alarms, without exceptions.
StoredEvents ==
    {Container(<<[StoredMaster(start, NullStr) EXCEPT
                    !.organizer = orga, !.attendee = as, !.alarms = al]>>) :
        start \in {Midnight, Morning},
        orga \in {NullStr, "mailto:a"},
        as \in StoredAttendees,
        al \in {<<>>} \cup {<<StoredAlarm(t, rel)>> :
                                t \in {Midnight, Morning},
                                rel \in {"START", "END", "ABSENT", "NONE"}}}

\* The exception of master m at t: the master itself at t, stored later.
SameAt(m, t) ==
    [m EXCEPT !.recurid = StoredTime(t, m.dtstart.zone),
              !.dtstart = StoredTime(t, m.dtstart.zone),
              !.rrule = <<>>,
              !.dtstamp = "2019-12-03T00:00:00Z"]

\* The exceptions there are of master m.
StoredExceptions(m) ==
    {<<>>,
     <<SameAt(m, Override1)>>,
     <<[SameAt(m, Override1) EXCEPT !.summary = "new"]>>,
     <<[SameAt(m, Override1) EXCEPT
            !.dtstart = StoredTime(Override2, m.dtstart.zone)]>>,
     <<[SameAt(m, Override1) EXCEPT
            !.uid = "u9", !.rrule = m.rrule, !.organizer = "mailto:b",
            !.dtstart = [t |-> Override1, zone |-> NullStr,
                         is_date |-> TRUE],
            !.created = "2019-12-03T00:00:00Z"]>>,
     <<SameAt(m, Override1),
       [SameAt(m, Override2) EXCEPT !.summary = "new"]>>}

\* The recurring events: the master before or after its exceptions.
StoredSeries ==
    UNION {{Container(<<m>> \o excs), Container(excs \o <<m>>)} :
            <<m, excs>> \in
                UNION {{<<x, e>> : e \in StoredExceptions(x)} :
                    x \in {[StoredMaster(Midnight, zone) EXCEPT
                                !.alarms = al, !.organizer = orga] :
                            zone \in {NullStr, "Europe/Berlin"},
                            al \in {<<>>, <<RelativeAlarm>>},
                            orga \in {NullStr, "mailto:a"}}}}

\* The properties a caller wants: all, or the ones named.
Wanted(names) == JObj([k \in names |-> JTrue])
WantedSets ==
    {NULL} \cup {Wanted(names) : names \in
                    {{"title"}, {"title", "uid"}, {"start", "duration"},
                     {"title", "recurrenceOverrides"},
                     {"@type", "uid", "recurrenceOverrides"}}}

InitRead ==
    /\ caller = "jmapical_tojmap"
    /\ obj = EmptyObject
    /\ src = NULL
    /\ err = Err("OK", NULL)
    /\ ical \in StoredEvents \cup StoredSeries
    /\ wctx = NULL
    /\ wpc = "done"
    /\ tojmap = NULL
    /\ wantprops = NULL
    /\ given = EmptyObject
    /\ calls = 0
    \* the other machines are idle
    /\ atts = <<>>
    /\ prop = 0
    /\ rsvp_prop = 0
    /\ depth = 0
    /\ rsvp = NullStr
    /\ iters = 0
    /\ participants = <<>>
    /\ rpc = "idle"
    /\ lprops = <<>>
    /\ lpos = 0
    /\ ret = EmptyObject
    /\ assigned = <<>>
    /\ lpropstr = <<>>
    /\ lpc = "idle"

\* A caller of jmapical_tojmap that may name the properties it wants.
InitWanted ==
    /\ caller = "jmapical_tojmap"
    /\ obj = EmptyObject
    /\ src = NULL
    /\ err = Err("OK", NULL)
    /\ ical \in StoredEvents \cup StoredSeries
    /\ wctx = NULL
    /\ wpc = "done"
    /\ tojmap = NULL
    /\ wantprops \in WantedSets
    /\ given = EmptyObject
    /\ calls = 0
    \* the other machines are idle
    /\ atts = <<>>
    /\ prop = 0
    /\ rsvp_prop = 0
    /\ depth = 0
    /\ rsvp = NullStr
    /\ iters = 0
    /\ participants = <<>>
    /\ rpc = "idle"
    /\ lprops = <<>>
    /\ lpos = 0
    /\ ret = EmptyObject
    /\ assigned = <<>>
    /\ lpropstr = <<>>
    /\ lpc = "idle"

NextRead == JmapicalTojmap

\* C29: the keys of the document that jmapical_tojmap returns for a
\* caller that names the properties it wants are among the names, and
\* uid and @type are in the document of a caller that wants
\* recurrenceOverrides exactly when they are in the one of a caller that
\* wants the same properties without recurrenceOverrides.
C29_OnlyWanted ==
    (wpc = "read" /\ tojmap # NULL /\ wantprops # NULL) =>
        /\ DOMAIN tojmap.o \subseteq DOMAIN wantprops.o
        /\ \A k \in {"uid", "@type"} :
                k \in DOMAIN tojmap.o
                <=> k \in DOMAIN jmapical_tojmap_props(ical,
                        Wanted(DOMAIN wantprops.o
                               \ {"recurrenceOverrides"})).o

\* The pointers of the strings of the document that are none of the values
\* their field allows: status, privacy, freeBusyStatus, the relativeTo of
\* an alert and the type of its action.
UnknownEnums ==
    {<<k>> : k \in
        {f \in {"status", "privacy", "freeBusyStatus"} :
            /\ json_object_get(obj, f) # NULL
            /\ json_is_string(json_object_get(obj, f))
            /\ json_object_get(obj, f).s \notin
                    (CASE f = "status" ->
                            {"confirmed", "cancelled", "tentative"}
                       [] f = "privacy" -> {"public", "private", "secret"}
                       [] OTHER -> {"free", "busy"})}}
    \cup {<<"alerts", id, "relativeTo">> : id \in
            {a \in DOMAIN Members("alerts") :
                LET r == json_object_get(Members("alerts")[a], "relativeTo")
                IN /\ r # NULL
                   /\ json_is_string(r)
                   /\ r.s \notin {"before-start", "after-start",
                                  "before-end", "after-end"}}}
    \cup {<<"alerts", id, "action", "type">> : id \in
            {a \in DOMAIN Members("alerts") :
                LET action == json_object_get(Members("alerts")[a], "action")
                IN /\ action # NULL
                   /\ json_object_get(action, "type") # NULL
                   /\ json_is_string(json_object_get(action, "type"))
                   /\ json_object_get(action, "type").s
                        \notin {"email", "display"}}}

\* C17: when a call returns for a document with a uid, an invalid property
\* is recorded for each string of the document that is none of the values
\* its field allows: status, privacy, freeBusyStatus, the relativeTo of an
\* alert and the type of the action of an alert.
C17_UnknownEnumInvalid ==
    (/\ Returned
     /\ wctx # NULL
     /\ json_object_get(obj, "uid") # NULL
     /\ json_is_string(json_object_get(obj, "uid"))) =>
        UnknownEnums \subseteq wctx.invalid

\* C18: when a call returns for a document with a uid whose priority is no
\* integer from 0 to 9, the pointer priority is recorded as invalid and no
\* container is returned.
C18_PriorityRange ==
    (/\ Returned
     /\ wctx # NULL
     /\ json_is_string(json_object_get(obj, "uid"))
     /\ json_object_get(obj, "priority") # NULL
     /\ ~(/\ json_object_get(obj, "priority").type = "integer"
          /\ json_object_get(obj, "priority").i \in 0..9)) =>
        /\ <<"priority">> \in wctx.invalid
        /\ ical = NULL

\* C20: whenever startend_to_ical has recorded no invalid property, the new
\* zone of the start and the new zone of the end are both floating or both
\* set, so no call ends in the assertion before DTSTART is written.
C20_ZonesAgree ==
    wctx # NULL => ~wctx.aborted

\* C15: to_component leaves the document it is given, with the patches of
\* its recurrenceOverrides, and the container it is given as they are,
\* whether it creates or updates and whether it succeeds or fails.
C15_InputsUnchanged ==
    [][wpc = "call" => (obj' = obj /\ src' = src)]_vars

\* ---------------------------------------------------------------------
\* Claims about the round trip.
\* ---------------------------------------------------------------------

\* The alerts of document e, none when it has no alerts object.
AlertsOf(e) ==
    IF e # NULL /\ json_object_get(e, "alerts") # NULL
        /\ json_object_get(e, "alerts").type = "object"
    THEN json_object_get(e, "alerts").o ELSE [k \in {} |-> NULL]

\* The VALARMs of the main VEVENT of the container returned.
MasterAlarms == {Master.alarms[i] : i \in 1..Len(Master.alarms)}

BeforeValues == {"before-start", "before-end"}

\* The TRIGGER of alarm is negative: its duration carries the minus sign,
\* or its absolute time lies before the start or end it relates to.
TriggerNegative(comp, alarm) ==
    IF dur_as_int(alarm.offset) # 0 \/ alarm.time = NullTime
    THEN alarm.is_neg \/ dur_as_int(alarm.offset) < 0
    ELSE alert_duration(comp, alarm) < 0

\* C11: every alert that to_document returns has an offset that is not
\* negative, and a relativeTo that is before-start or before-end exactly
\* when the TRIGGER of its VALARM is negative; the TRIGGER that to_component
\* writes for an alert is negative exactly when the relativeTo of the alert
\* is before-start or before-end.
C11_AlertDirection ==
    /\ (wpc = "read" /\ tojmap # NULL) =>
        \A id \in DOMAIN AlertsOf(tojmap) :
            /\ ~dur_is_neg(AlertsOf(tojmap)[id].o["offset"].s)
            /\ \E a \in MasterAlarms :
                /\ a.uid = id
                /\ AlertsOf(tojmap)[id].o["relativeTo"].s \in BeforeValues
                    <=> TriggerNegative(Master, a)
    /\ (wpc \in {"done", "read"} /\ ical # NULL) =>
        \A id \in DOMAIN AlertsOf(obj) :
            \A a \in MasterAlarms :
                a.uid = id =>
                    (TriggerNegative(Master, a)
                        <=> json_object_get(AlertsOf(obj)[id],
                                "relativeTo") \in {JStr(v) : v \in BeforeValues})

\* The VALARMs of the main VEVENT that are no snooze alarms.
RegularAlarms == {a \in MasterAlarms : a.relatedto = NullStr}

\* The places of the snooze alarms of uid among the VALARMs.
SnoozesOf(uid) ==
    {i \in 1..Len(Master.alarms) : Master.alarms[i].relatedto = uid}

\* The UTC date of time dt, which is a time in UTC.
UtcDateOf(dt) ==
    CHOOSE u \in UtcDates :
        dt = [t |-> CHOOSE l \in LocalDates : l \o "Z" = u, zone |-> utc,
              is_date |-> FALSE]

\* The action of alert id of document e.
ActionOf(e, id) == json_object_get(AlertsOf(e)[id], "action")

\* The alerts of the document written that were snoozed until a UTC date.
SnoozedIds ==
    {id \in DOMAIN AlertsOf(Effective) :
        /\ json_object_get(ActionOf(Effective, id), "snoozed") # NULL
        /\ json_object_get(ActionOf(Effective, id), "snoozed").type = "string"
        /\ json_object_get(ActionOf(Effective, id), "snoozed").s \in UtcDates}

\* C22: the document read has one alert for every VALARM that is no snooze
\* alarm and none for a VALARM with RELATED-TO;RELTYPE=SNOOZE; the action
\* of the alert whose alarm a snooze alarm names has snoozed, the absolute
\* TRIGGER of the snooze alarm as a UTC date, and acknowledged when its
\* alarm has ACKNOWLEDGED; an alert written with snoozed gives its alarm
\* and one snooze alarm that names it, and is read back as one alert with
\* the same snoozed.
C22_SnoozeFolded ==
    /\ (wpc = "read" /\ tojmap # NULL) =>
        /\ DOMAIN AlertsOf(tojmap) = {a.uid : a \in RegularAlarms}
        /\ \A a \in RegularAlarms :
            /\ \A i \in SnoozesOf(a.uid) :
                    Master.alarms[i].time # NullTime =>
                        json_object_get(ActionOf(tojmap, a.uid), "snoozed")
                            = JStr(UtcDateOf(Master.alarms[i].time))
            /\ SnoozesOf(a.uid) = {} =>
                    json_object_get(ActionOf(tojmap, a.uid), "snoozed") = NULL
            /\ IF a.acknowledged = NullTime
               THEN json_object_get(ActionOf(tojmap, a.uid), "acknowledged")
                        = NULL
               ELSE json_object_get(ActionOf(tojmap, a.uid), "acknowledged")
                        = JStr(UtcDateOf(a.acknowledged))
    /\ (wpc \in {"done", "read"} /\ ical # NULL) =>
        \A id \in DOMAIN AlertsOf(Effective) :
            /\ Cardinality({i \in 1..Len(Master.alarms) :
                                Master.alarms[i].uid = id}) = 1
            /\ Cardinality(SnoozesOf(id))
                    = IF id \in SnoozedIds THEN 1 ELSE 0
            /\ \A i \in SnoozesOf(id) :
                    /\ Master.alarms[i].time # NullTime
                    /\ JStr(UtcDateOf(Master.alarms[i].time))
                        = json_object_get(ActionOf(Effective, id), "snoozed")
    /\ (wpc = "read" /\ tojmap # NULL) =>
        \A id \in SnoozedIds :
            /\ id \in DOMAIN AlertsOf(tojmap)
            /\ json_object_get(ActionOf(tojmap, id), "snoozed")
                = json_object_get(ActionOf(Effective, id), "snoozed")

\* A stored alarm with ACKNOWLEDGED and its snooze alarm were read, written
\* again and read back as one alert with both times.
C22_Witness ==
    /\ wpc = "read"
    /\ src # NULL
    /\ obj = EmptyObject
    /\ tojmap # NULL
    /\ SnoozedIds = {"a1"}
    /\ Cardinality(DOMAIN AlertsOf(tojmap)) = Cardinality(RegularAlarms)
    /\ SnoozesOf("a1") # {}
    /\ json_object_get(ActionOf(tojmap, "a1"), "snoozed") = JStr(Morning \o "Z")
    /\ json_object_get(ActionOf(tojmap, "a1"), "acknowledged")
        = JStr(Midnight \o "Z")

\* ---------------------------------------------------------------------
\* Claims about reading stored containers.
\* ---------------------------------------------------------------------

\* The sibling exception components of the container that was read.
Siblings ==
    {ical.comps[i] : i \in (1..Len(ical.comps)) \ {main_vevent(ical)}}

\* The override entry that the document read has for exception e.
PatchOf(e) ==
    json_object_get(json_object_get(tojmap, "recurrenceOverrides"),
                    localdate_from_icaltime_r(e.recurid))

\* C12: every override patch that to_document places in
\* recurrenceOverrides for a sibling exception component has none of the
\* keys uid, relatedTo, prodId, isAllDay, recurrenceRule,
\* recurrenceOverrides, replyTo, participantId.
C12_PatchKeysAllowed ==
    (wpc = "read" /\ tojmap # NULL) =>
        \A e \in Siblings :
            /\ PatchOf(e) # NULL
            /\ PatchOf(e).type = "object"
            /\ DOMAIN PatchOf(e).o \cap ForbiddenKeys = {}

\* An exception was read whose UID, RRULE, ORGANIZER and DTSTART value type
\* are not those of its master, and its patch has keys.
C12_Witness ==
    /\ wpc = "read"
    /\ tojmap # NULL
    /\ \E e \in Siblings :
        /\ e.uid # Master.uid
        /\ e.organizer # Master.organizer
        /\ e.dtstart.is_date # Master.dtstart.is_date
        /\ e.rrule # <<>>
        /\ PatchOf(e) # NULL
        /\ DOMAIN PatchOf(e).o # {}

\* Exception e is its master at its recurrence id, but for its SUMMARY
\* when summary is not the one of the master.
IsMasterAt(e, summary) ==
    e = [SameAt(Master, e.recurid.t) EXCEPT !.summary = summary,
                                            !.dtstamp = e.dtstamp]

\* C13: on read the override entry of a sibling exception lists only
\* fields in which the exception differs from the master: created, updated
\* and a start that is the recurrence id are not in it, an exception that
\* is the master at its occurrence has an entry without keys, and one that
\* differs only in SUMMARY has an entry with the key title alone.
C13_PatchMinimal ==
    (wpc = "read" /\ tojmap # NULL) =>
        \A e \in Siblings :
            /\ PatchOf(e) # NULL
            /\ PatchOf(e).type = "object"
            /\ \A k \in DOMAIN PatchOf(e).o :
                    json_object_get(tojmap, k) # PatchOf(e).o[k]
            /\ DOMAIN PatchOf(e).o \cap {"created", "updated"} = {}
            /\ e.dtstart.t = e.recurid.t => "start" \notin DOMAIN PatchOf(e).o
            /\ IsMasterAt(e, Master.summary) => DOMAIN PatchOf(e).o = {}
            /\ (e.summary # Master.summary /\ IsMasterAt(e, e.summary)) =>
                    /\ DOMAIN PatchOf(e).o = {"title"}
                    /\ PatchOf(e).o["title"] = JStr(e.summary)

\* A series was read with an exception that is the master at its occurrence
\* and one that differs in SUMMARY, both stored after the master was.
C13_Witness ==
    /\ wpc = "read"
    /\ tojmap # NULL
    /\ \E e1, e2 \in Siblings :
        /\ IsMasterAt(e1, Master.summary)
        /\ e1.dtstamp # Master.dtstamp
        /\ PatchOf(e1) = EmptyObject
        /\ e2.summary # Master.summary
        /\ IsMasterAt(e2, e2.summary)
        /\ DOMAIN PatchOf(e2).o = {"title"}

\* The ATTENDEE values that are mailto: URIs.
MailtoUris == {"mailto:a", "mailto:b", "MAILTO:c"}

\* The positions of the ATTENDEEs of the main VEVENT with such a value.
MailtoAttendees ==
    {i \in 1..Len(Master.attendee) : Master.attendee[i].uri \in MailtoUris}

\* The container without the ATTENDEEs of another kind.
WithoutOtherAttendees ==
    [ical EXCEPT !.comps[main_vevent(ical)].attendee =
        SelectSeq(@, LAMBDA a : a.uri \in MailtoUris)]

\* C19: on read an ATTENDEE whose value is no mailto: URI is left out of
\* participants, every other attendee and every other field is translated
\* as without it, a document is returned and no error code is set.
C19_MalformedAttendeeSkipped ==
    wpc = "read" =>
        /\ tojmap # NULL
        /\ err.code = "OK"
        /\ json_object_size(json_object_get(tojmap, "participants"))
                = Cardinality(MailtoAttendees)
        /\ \A i \in MailtoAttendees :
                \E id \in DOMAIN json_object_get(tojmap, "participants").o :
                    /\ id \in {Master.attendee[i].id, "a", "b", "c"}
                    /\ json_object_get(tojmap, "participants").o[id].o["name"]
                        = JStr(IF Master.attendee[i].cn = NullStr THEN ""
                               ELSE Master.attendee[i].cn)
        /\ tojmap = jmapical_tojmap(WithoutOtherAttendees)

\* An event was read that has an ATTENDEE with a mailto: URI and, before
\* it, one with an URI of another scheme.
C19_Witness ==
    /\ wpc = "read"
    /\ tojmap # NULL
    /\ MailtoAttendees # {}
    /\ 1 \notin MailtoAttendees
    /\ json_object_size(json_object_get(tojmap, "participants")) > 0

SpecRsvp == InitRsvp /\ [][NextRsvp]_vars

SpecLinks == InitLinks /\ [][NextLinks]_vars

SpecWrite == InitWrite /\ [][NextWrite]_vars

SpecRound == InitRound /\ [][NextRound]_vars

SpecRead == InitRead /\ [][NextRead]_vars
SpecWanted == InitWanted /\ [][NextRead]_vars

====
